---------------------------- MODULE Spec2Model ----------------------------
(***************************************************************************)
(* Inbound e-mail ingestion, routing and custom-domain verification.       *)
(*                                                                         *)
(* The main specifications of this module:                                 *)
(*   SpecVerifier  the two DNS verifiers as pure functions of a DNS state  *)
(*   SpecDomain    user-triggered verification, the Domain Monitor sweep   *)
(*                 and the Resolver over the domain tables                 *)
(*   Spec          the ingestion handlers (webhook route and the           *)
(*                 EmailRouter.handleIncomingEmail variants) over the      *)
(*                 transactional store                                     *)
(* Further specifications follow single routes and helpers: SpecRace,      *)
(* SpecRedelivery, SpecCreate, SpecAddDomain, SpecDelete, SpecSweep, and    *)
(* SpecSubject and SpecSender for the string helpers of the webhook.       *)
(* A specification leaves the variables it does not use at their initial   *)
(* values.                                                                 *)
(***************************************************************************)
EXTENDS Integers, Sequences, FiniteSets, TLC

VARIABLES
  \* ---- SpecVerifier
  vdns,        \* the DNS state handed to the verifiers
  vout,        \* result of verifyDNSSettings(vdns), NoResult before the call
  aout,        \* result of DnsVerifier.verifyAll(vdns), NoResult before the call
  \* ---- SpecSubject, SpecSender
  tin,         \* the string handed to a helper of the webhook: [present, s]
  tout,        \* the results of its successive applications, oldest first
  \* ---- SpecDomain
  user_domains,          \* table user_domains: domain -> [user_id, is_verified, status]
  domain_verifications,  \* table domain_verifications: domain -> [type -> is_verified]
  domain_forwards,       \* table domain_forwards: domain -> forward_to or NULL
  domain_issues,         \* table domain_issues: domain -> number of issue rows
  custom_domains,        \* table custom_domains: domain -> [user_id, status, dns_check_results]
  dns,                   \* the world's DNS: domain -> DNS state
  mon,                   \* DomainMonitor.monitorDomains in flight
  sweeps,                \* sweeps started so far
  pv,                    \* POST /domains/:id/verify in flight
  evidence,              \* per domain, the check map evaluated by the call that set is_verified
  mlast,                 \* what the sweep did to the domain it handled last
  \* ---- Spec (ingestion)
  premium_emails,        \* table premium_emails: id -> [email, forward_to, expires_at, user_id]
  temp_emails,           \* table temp_emails: id -> [email, expires_at, user_id]
  email_forwards,        \* table email_forwards: address -> forward_to or NULL
  now,                   \* the store's clock, NOW()
  db,                    \* the committed rows of the e-mail, attachment and analytics tables
  sent,                  \* the mails handed to mailTransporter.sendMail that it accepted
  req,                   \* the ingestion requests: request -> its handler's state
  \* ---- requests of the management routes, in flight
  vb,                    \* POST /verify/:id in flight
  uuids,                 \* the identifiers uuidv4() has handed out to the mailbox routes
  up,                    \* POST /emails/upgrade/:id in flight
  ad,                    \* POST /custom in flight: domain -> its handler's state
  dl                     \* DELETE /delete/:id in flight

verifierVars == <<vdns, vout, aout, tin, tout>>

domainVars == <<user_domains, domain_verifications, domain_forwards, domain_issues,
                custom_domains, dns, mon, sweeps, pv, evidence, mlast>>

ingestVars == <<premium_emails, temp_emails, email_forwards, now, db, sent, req>>

opVars == <<vb, uuids, up, ad, dl>>
\* The management requests other than POST /verify/:id.
createVars == <<uuids, up, ad, dl>>

NULL == "null"

(***************************************************************************)
(* DNS.  A lookup (dns.resolveMx, resolveTxt, resolveCname) either answers *)
(* with a non-empty record set or rejects: node reports an empty answer as *)
(* the error ENODATA, a missing name as ENOTFOUND, a timeout as ETIMEOUT.   *)
(* Records are abstracted to the classes the verifiers' predicates         *)
(* distinguish.                                                            *)
(***************************************************************************)
MxKinds    == {"boomlify",    \* exchange includes mx1.boomlify.com / mx2.boomlify.com
               "self10",      \* exchange = mail.<domain>, priority 10
               "other"}
TxtKinds   == {"spf_incl",    \* contains v=spf1 and include:_spf.boomlify.com
               "spf_plain",   \* contains v=spf1 only
               "other"}
CnameKinds == {"boomlify",    \* includes mail.boomlify.com
               "other"}
DkimKinds  == {"dkim1",       \* contains v=DKIM1
               "other"}

Rejections == {"error", "timeout"}

Lookups(kinds) ==
  {[st |-> s, recs |-> {}] : s \in Rejections}
    \cup {[st |-> "answer", recs |-> rs] : rs \in (SUBSET kinds) \ {{}}}

DnsStates ==
  [mx : Lookups(MxKinds), txt : Lookups(TxtKinds),
   cname : Lookups(CnameKinds), dkim : Lookups(DkimKinds)]

Rejected(lookup) == lookup.st # "answer"

NoResult == [none |-> TRUE]

(***************************************************************************)
(* verifyDNSSettings: one try block around the three checks.  The MX and   *)
(* TXT lookups are awaited promises, so a rejection leaves the block for   *)
(* the catch, which reports every check false.  The CNAME lookup is        *)
(* callback style and resolves to false on error.                          *)
(***************************************************************************)
hasMxRecords(d) == "boomlify" \in d.mx.recs

hasSpf(d) == "spf_incl" \in d.txt.recs

hasCname(d) == d.cname.st = "answer" /\ "boomlify" \in d.cname.recs

AggregateValid_DropsCname(mx, spf, cname) == mx /\ spf

AggregateValid(mx, spf, cname) == mx /\ spf /\ cname

\* The try block's result: the value it returns, or Thrown when an awaited
\* lookup rejects.
Thrown == [thrown |-> TRUE]

verifyDNSSettingsTry(d) ==
  IF Rejected(d.mx) THEN Thrown
  ELSE IF Rejected(d.txt) THEN Thrown
  ELSE [threw |-> FALSE,
        isValid |-> AggregateValid(hasMxRecords(d), hasSpf(d), hasCname(d)),
        checks |-> [mx |-> hasMxRecords(d), spf |-> hasSpf(d),
                    cname |-> hasCname(d)]]

verifyDNSSettings(d) ==
  IF verifyDNSSettingsTry(d) = Thrown
  THEN [threw |-> FALSE, isValid |-> FALSE,
        checks |-> [mx |-> FALSE, spf |-> FALSE, cname |-> FALSE]]
  ELSE verifyDNSSettingsTry(d)

(***************************************************************************)
(* DnsVerifier: each check has its own try/catch returning false.          *)
(***************************************************************************)
verifyMxRecord(d) ==
  IF Rejected(d.mx) THEN FALSE ELSE "self10" \in d.mx.recs

verifySpfRecord(d) ==
  IF Rejected(d.txt) THEN FALSE
  ELSE d.txt.recs \cap {"spf_incl", "spf_plain"} # {}

verifyDkimRecord(d) ==
  IF Rejected(d.dkim) THEN FALSE ELSE "dkim1" \in d.dkim.recs

verifyAll(d) ==
  LET results == [mx |-> verifyMxRecord(d), spf |-> verifySpfRecord(d),
                  dkim |-> verifyDkimRecord(d)]
  IN [threw |-> FALSE,
      success |-> \A k \in DOMAIN results : results[k],
      results |-> results]

\* What each lookup, taken alone, says about its record.
OwnMx(d)    == ~Rejected(d.mx) /\ hasMxRecords(d)
OwnSpf(d)   == ~Rejected(d.txt) /\ hasSpf(d)
OwnCname(d) == hasCname(d)

(***************************************************************************)
(* Domain tables.  user_domains (with domain_verifications, domain_forwards *)
(* and domain_issues) is the table the Resolver and the Domain Monitor     *)
(* read; custom_domains is the table of POST /domains/:id/verify.          *)
(***************************************************************************)
MaxSweeps == 2

Domains == {"d1", "d2"}

SystemDomains == {"sys"}

Users == {"u1", "u2"}

\* The domains that also have a row in custom_domains.
CustomDomains == {"d1"}

VerificationTypes == {"MX", "TXT", "DKIM"}

DnsGood ==
  [mx |-> [st |-> "answer", recs |-> {"boomlify", "self10"}],
   txt |-> [st |-> "answer", recs |-> {"spf_incl"}],
   cname |-> [st |-> "answer", recs |-> {"boomlify"}],
   dkim |-> [st |-> "answer", recs |-> {"dkim1"}]]

DnsMxTimeout == [DnsGood EXCEPT !.mx = [st |-> "timeout", recs |-> {}]]

DnsNoCname == [DnsGood EXCEPT !.cname = [st |-> "error", recs |-> {}]]

DnsSamples == {DnsGood, DnsMxTimeout, DnsNoCname}

OwnerOf(d) == IF d = "d1" THEN "u1" ELSE "u2"

MonIdle == [pc |-> "idle", snap |-> <<>>, todo |-> {}, cur |-> NULL, res |-> NoResult]

PvIdle == [pc |-> "idle", d |-> NULL, verification |-> NoResult]

NoLog == [none |-> TRUE]

VbIdle == [pc |-> "idle", d |-> NULL, row |-> NoResult, locked |-> FALSE, resp |-> 0]

UpIdle ==
  [pc |-> "idle", id |-> 0, newId |-> 0, newEmail |-> NULL, u |-> NULL, staged |-> <<>>]

AdIdle ==
  [pc |-> "idle", u |-> NULL, rowStaged |-> FALSE, types |-> {}, err |-> "none",
   resp |-> 0]

DlIdle ==
  [pc |-> "idle", u |-> NULL, id |-> NULL, delReceived |-> FALSE, delTemp |-> FALSE,
   err |-> "none", resp |-> 0, temp0 |-> <<>>, db0 |-> {}]

OpsIdle ==
  /\ dl = DlIdle
  /\ vb = VbIdle
  /\ uuids = 0
  /\ up = UpIdle
  /\ ad = [d \in Domains |-> AdIdle]

\* The rows POST /custom leaves: status 'trial', is_verified at its default 0,
\* one unverified record per verification type.
InitUserDomains ==
  /\ user_domains =
       [d \in Domains |-> [user_id |-> OwnerOf(d), is_verified |-> 0, status |-> "trial"]]
  /\ domain_verifications = [d \in Domains |-> [t \in VerificationTypes |-> 0]]

InitDomainRest ==
  /\ domain_forwards = [d \in Domains |-> IF d = "d1" THEN "ext@example.com" ELSE NULL]
  /\ domain_issues = [d \in Domains |-> 0]
  /\ custom_domains =
       [d \in CustomDomains |->
          [user_id |-> OwnerOf(d), status |-> "pending", dns_check_results |-> NoResult]]
  /\ mon = MonIdle
  /\ sweeps = 0
  /\ pv = PvIdle
  /\ evidence = [d \in Domains |-> NoResult]
  /\ mlast = NoLog

InitDomain == InitUserDomains /\ InitDomainRest /\ dns \in [Domains -> DnsSamples]

\* DNS is outside the program: a record set changes or a resolver fails.
EnvDnsChange(d, s) ==
  /\ s # dns[d]
  /\ dns' = [dns EXCEPT ![d] = s]
  /\ UNCHANGED <<user_domains, domain_verifications, domain_forwards, domain_issues,
                 custom_domains, mon, sweeps, pv, evidence, mlast>>
  /\ UNCHANGED <<verifierVars, ingestVars, opVars>>

(***************************************************************************)
(* POST /verify/:id.  404 unless the caller owns the domain; otherwise one *)
(* transaction marks every verification record and the domain verified.   *)
(* No DNS lookup is made: the call evaluates no check.  A failing          *)
(* statement rolls the transaction back and the response is 500.           *)
(***************************************************************************)
\* Writing back the row as the ownership SELECT read it.
MarkVerified_WritesSelectedRow(ud, d) ==
  [ud EXCEPT ![d] = [is_verified |-> 1, user_id |-> vb.row.user_id,
                     status |-> vb.row.status]]

MarkVerified(ud, d) == [ud EXCEPT ![d].is_verified = 1]

VerifyById(u, d, ok) ==
  /\ IF user_domains[d].user_id = u /\ ok
     THEN /\ domain_verifications' =
               [domain_verifications EXCEPT ![d] = [t \in VerificationTypes |-> 1]]
          /\ user_domains' = MarkVerified(user_domains, d)
          /\ evidence' = [evidence EXCEPT ![d] = NoResult]
     ELSE UNCHANGED <<user_domains, domain_verifications, evidence>>
  /\ UNCHANGED <<domain_forwards, domain_issues, custom_domains, dns, mon, sweeps,
                 pv, mlast>>
  /\ UNCHANGED <<verifierVars, ingestVars, opVars>>

(***************************************************************************)
(* POST /verify/:id step by step, for the interleavings with the sweep.    *)
(* The UPDATE of the user_domains row inside the transaction holds the     *)
(* row's lock until commit or rollback; another connection's UPDATE of     *)
(* that row waits for it.  Nothing the transaction wrote is visible before *)
(* commit.                                                                 *)
(***************************************************************************)
RowLocked(d) == vb.locked /\ vb.d = d

\* The ownership SELECT (and the SELECT of the verification records): 404
\* when the caller does not own the domain; a rejected query goes to the
\* catch.
VerifyByIdSelect(u, d, ok) ==
  /\ UNCHANGED createVars
  /\ vb.pc = "idle"
  /\ vb' = IF ~ok THEN [VbIdle EXCEPT !.pc = "rollback", !.d = d]
           ELSE IF user_domains[d].user_id # u THEN VbIdle
           ELSE [VbIdle EXCEPT !.pc = "begin", !.d = d, !.row = user_domains[d]]
  /\ UNCHANGED <<verifierVars, domainVars, ingestVars>>

VerifyByIdBegin(ok) ==
  /\ UNCHANGED createVars
  /\ vb.pc = "begin"
  /\ vb' = [vb EXCEPT !.pc = IF ok THEN "verifications" ELSE "rollback"]
  /\ UNCHANGED <<verifierVars, domainVars, ingestVars>>

VerifyByIdUpdateVerifications(ok) ==
  /\ UNCHANGED createVars
  /\ vb.pc = "verifications"
  /\ vb' = [vb EXCEPT !.pc = IF ok THEN "domain" ELSE "rollback"]
  /\ UNCHANGED <<verifierVars, domainVars, ingestVars>>

VerifyByIdUpdateDomain(ok) ==
  /\ UNCHANGED createVars
  /\ vb.pc = "domain"
  /\ vb' = IF ok THEN [vb EXCEPT !.pc = "commit", !.locked = TRUE]
           ELSE [vb EXCEPT !.pc = "rollback"]
  /\ UNCHANGED <<verifierVars, domainVars, ingestVars>>

VerifyByIdCommit(ok) ==
  /\ UNCHANGED createVars
  /\ vb.pc = "commit"
  /\ IF ok
     THEN /\ domain_verifications' =
               [domain_verifications EXCEPT ![vb.d] = [t \in VerificationTypes |-> 1]]
          /\ user_domains' = MarkVerified(user_domains, vb.d)
          /\ evidence' = [evidence EXCEPT ![vb.d] = NoResult]
          /\ vb' = VbIdle
     ELSE /\ vb' = [vb EXCEPT !.pc = "rollback"]
          /\ UNCHANGED <<user_domains, domain_verifications, evidence>>
  /\ UNCHANGED <<domain_forwards, domain_issues, custom_domains, dns, mon, sweeps,
                 pv, mlast>>
  /\ UNCHANGED <<verifierVars, ingestVars>>

\* catch: rollback, 500; finally: release.
VerifyByIdRollback ==
  /\ UNCHANGED createVars
  /\ vb.pc = "rollback"
  /\ vb' = VbIdle
  /\ UNCHANGED <<verifierVars, domainVars, ingestVars>>

(***************************************************************************)
(* POST /domains/:id/verify.  Selects the caller's domain (404 when there  *)
(* is none, 500 when the query fails), awaits verifyDNSSettings, then      *)
(* writes status, verified_at and dns_check_results in one UPDATE (500 and *)
(* no change when it fails).                                               *)
(***************************************************************************)
PremiumVerifyCheck(u, d, ok) ==
  /\ pv.pc = "idle"
  /\ pv' = IF ok /\ custom_domains[d].user_id = u
           THEN [pc |-> "write", d |-> d, verification |-> verifyDNSSettings(dns[d])]
           ELSE pv
  /\ UNCHANGED <<user_domains, domain_verifications, domain_forwards, domain_issues,
                 custom_domains, dns, mon, sweeps, evidence, mlast>>
  /\ UNCHANGED <<verifierVars, ingestVars, opVars>>

VerifiedStatus(isValid) == IF isValid THEN "verified" ELSE "failed"

PremiumVerifyWrite(ok) ==
  /\ pv.pc = "write"
  /\ custom_domains' =
       IF ok
       THEN [custom_domains EXCEPT
               ![pv.d].status = VerifiedStatus(pv.verification.isValid),
               ![pv.d].dns_check_results = pv.verification.checks]
       ELSE custom_domains
  /\ pv' = PvIdle
  /\ UNCHANGED <<user_domains, domain_verifications, domain_forwards, domain_issues,
                 dns, mon, sweeps, evidence, mlast>>
  /\ UNCHANGED <<verifierVars, ingestVars, opVars>>

(***************************************************************************)
(* DomainMonitor.monitorDomains.  One pooled connection for the sweep; the *)
(* SELECT takes the rows with is_verified = 1 as they are then (no ORDER   *)
(* BY: the loop's order is the store's); the loop handles each row inside  *)
(* its own try/catch, which logs and goes on; finally releases.  A sweep   *)
(* whose getConnection or SELECT rejects ends there.                       *)
(***************************************************************************)
MonitorGetConnection(ok) ==
  /\ mon.pc = "idle"
  /\ sweeps < MaxSweeps
  /\ sweeps' = sweeps + 1
  /\ mon' = IF ok THEN [MonIdle EXCEPT !.pc = "select"] ELSE MonIdle
  /\ mlast' = NoLog
  /\ UNCHANGED <<user_domains, domain_verifications, domain_forwards, domain_issues,
                 custom_domains, dns, pv, evidence>>
  /\ UNCHANGED <<verifierVars, ingestVars, opVars>>

MonitorSelect(ok) ==
  /\ mon.pc = "select"
  /\ mon' = IF ok
            THEN LET sel == {d \in Domains : user_domains[d].is_verified = 1}
                 IN [MonIdle EXCEPT !.pc = "loop",
                                    !.snap = [d \in sel |-> user_domains[d].status],
                                    !.todo = sel]
            ELSE MonIdle
  /\ UNCHANGED <<user_domains, domain_verifications, domain_forwards, domain_issues,
                 custom_domains, dns, sweeps, pv, evidence, mlast>>
  /\ UNCHANGED <<verifierVars, ingestVars, opVars>>

\* The sweep's record of one domain: the verdict, the status in the SELECTed
\* row, the status and issue count before the sweep touched the domain, and
\* how the UPDATE and the INSERT ended ("ok", "failed", "none" when not run).
LogEntry(d, res, before, upd, ins) ==
  [d |-> d, verdict |-> res.success, was |-> mon.snap[d], before |-> before,
   issuesBefore |-> domain_issues[d], upd |-> upd, ins |-> ins]

MonitorVerify(d) ==
  /\ mon.pc = "loop"
  /\ d \in mon.todo
  /\ LET res == verifyAll(dns[d])
         nxt == IF ~res.success THEN "update"
                ELSE IF mon.snap[d] = "inactive" THEN "reactivate"
                ELSE "loop"
     IN /\ mon' = [mon EXCEPT !.pc = nxt, !.todo = mon.todo \ {d},
                              !.cur = IF nxt = "loop" THEN NULL ELSE d,
                              !.res = IF nxt = "loop" THEN NoResult ELSE res]
        /\ mlast' = IF nxt = "loop"
                    THEN LogEntry(d, res, user_domains[d].status, "none", "none")
                    ELSE NoLog
  /\ UNCHANGED <<user_domains, domain_verifications, domain_forwards, domain_issues,
                 custom_domains, dns, sweeps, pv, evidence>>
  /\ UNCHANGED <<verifierVars, ingestVars, opVars>>

\* The loop goes on with the next domain.
NextIteration(q) == [q EXCEPT !.pc = "loop", !.cur = NULL, !.res = NoResult]

\* An error that leaves the loop: the finally block releases the connection
\* and the sweep is over.
CatchDomainError_LeavesLoop(q) == MonIdle

\* The catch block inside the loop: the error is logged and the loop goes on.
CatchDomainError(q) == NextIteration(q)

\* An UPDATE that also takes a failing domain out of the verified ones.
SetStatus_ClearsVerified(ud, d, st) ==
  [ud EXCEPT ![d].status = st,
             ![d].is_verified = IF st = "inactive" THEN 0 ELSE @]

SetStatus_Reactivates(ud, d, st) == [ud EXCEPT ![d].status = "active"]

SetStatus(ud, d, st) == [ud EXCEPT ![d].status = st]

MonitorMarkInactive(ok) ==
  /\ mon.pc = "update"
  /\ ok => ~RowLocked(mon.cur)   \* a waiting UPDATE succeeds only once the row is free
  /\ IF ok
     THEN /\ user_domains' = SetStatus(user_domains, mon.cur, "inactive")
          /\ mon' = [mon EXCEPT !.pc = "issue"]
          /\ mlast' = LogEntry(mon.cur, mon.res, user_domains[mon.cur].status,
                               "ok", "none")
     ELSE /\ user_domains' = user_domains
          /\ mon' = CatchDomainError(mon)
          /\ mlast' = LogEntry(mon.cur, mon.res, user_domains[mon.cur].status,
                               "failed", "none")
  /\ UNCHANGED <<domain_verifications, domain_forwards, domain_issues, custom_domains,
                 dns, sweeps, pv, evidence>>
  /\ UNCHANGED <<verifierVars, ingestVars, opVars>>

MonitorLogIssue(ok) ==
  /\ mon.pc = "issue"
  /\ domain_issues' = IF ok THEN [domain_issues EXCEPT ![mon.cur] = @ + 1]
                            ELSE domain_issues
  /\ mon' = IF ok THEN NextIteration(mon) ELSE CatchDomainError(mon)
  /\ mlast' = [mlast EXCEPT !.ins = IF ok THEN "ok" ELSE "failed"]
  /\ UNCHANGED <<user_domains, domain_verifications, domain_forwards, custom_domains,
                 dns, sweeps, pv, evidence>>
  /\ UNCHANGED <<verifierVars, ingestVars, opVars>>

MonitorReactivate(ok) ==
  /\ mon.pc = "reactivate"
  /\ ok => ~RowLocked(mon.cur)   \* a waiting UPDATE succeeds only once the row is free
  /\ user_domains' = IF ok THEN SetStatus(user_domains, mon.cur, "active")
                           ELSE user_domains
  /\ mon' = IF ok THEN NextIteration(mon) ELSE CatchDomainError(mon)
  /\ mlast' = LogEntry(mon.cur, mon.res, user_domains[mon.cur].status,
                       IF ok THEN "ok" ELSE "failed", "none")
  /\ UNCHANGED <<domain_verifications, domain_forwards, domain_issues, custom_domains,
                 dns, sweeps, pv, evidence>>
  /\ UNCHANGED <<verifierVars, ingestVars, opVars>>

MonitorRelease ==
  /\ mon.pc = "loop"
  /\ mon.todo = {}
  /\ mon' = MonIdle
  /\ UNCHANGED <<user_domains, domain_verifications, domain_forwards, domain_issues,
                 custom_domains, dns, sweeps, pv, evidence, mlast>>
  /\ UNCHANGED <<verifierVars, ingestVars, opVars>>

(***************************************************************************)
(* Ingestion.  The mailbox tables are fixed here; the store is             *)
(* transactional: rows inserted on a connection between beginTransaction   *)
(* and commit are staged and become visible at commit; rollback, or the    *)
(* loss of the connection (a rollback that itself fails), discards them.   *)
(***************************************************************************)
MaxReq == 1

MaxAtt == 2

MaxNow == 1

Reqs == 1..MaxReq

Handlers == {"webhook",       \* POST /email/incoming
             "router",        \* EmailRouter.handleIncomingEmail, services/emailRouter.js
             "routerPlain",   \* the variant whose forwardEmail only logs
             "routerSysFwd"}  \* the variant that also forwards for system domains

Recipients == {"both@d1", "prem@d1", "temp@sys", "old@sys", "oldp@d2", "ghost@sys"}

\* recipientEmail.split('@')[1]
DomainOf(a) ==
  CASE a \in {"both@d1", "prem@d1"} -> "d1"
    [] a = "oldp@d2" -> "d2"
    [] OTHER -> "sys"

FarFuture == MaxNow + 1

InitMailboxes ==
  /\ premium_emails =
       [id \in {"pm1", "pm2", "pm3"} |->
          CASE id = "pm1" -> [email |-> "both@d1", forward_to |-> "fwd@ext",
                              expires_at |-> FarFuture, user_id |-> "u1"]
            [] id = "pm2" -> [email |-> "prem@d1", forward_to |-> NULL,
                              expires_at |-> FarFuture, user_id |-> "u1"]
            [] OTHER      -> [email |-> "oldp@d2", forward_to |-> "fwd@ext",
                              expires_at |-> 0, user_id |-> "u2"]]
  /\ temp_emails =
       [id \in {"t1", "t2", "t3"} |->
          CASE id = "t1" -> [email |-> "both@d1", expires_at |-> FarFuture, user_id |-> "u1"]
            [] id = "t2" -> [email |-> "temp@sys", expires_at |-> 1, user_id |-> NULL]
            [] OTHER     -> [email |-> "old@sys", expires_at |-> 0, user_id |-> NULL]]
  /\ email_forwards =
       [a \in Recipients |-> IF a = "temp@sys" THEN "fwd2@ext" ELSE NULL]

ReqIdle ==
  [pc |-> "idle", handler |-> NULL, rcpt |-> NULL, natt |-> 0, t0 |-> 0,
   branch |-> "none", mailbox |-> NULL, rtype |-> "none", fwdTo |-> NULL,
   i |-> 0, conns |-> 0, txOpen |-> FALSE, staged |-> {}, attFailed |-> 0,
   fwd |-> "none", err |-> "none", rb |-> "none", resp |-> <<>>, out |-> "none",
   writes |-> 0, enc |-> "none"]

InitIngestStore ==
  /\ now = 0
  /\ db = {}
  /\ sent = {}
  /\ req = [r \in Reqs |-> ReqIdle]

IngestIdle == InitMailboxes /\ InitIngestStore

\* The domain tables an ingestion runs against: d1 verified and active with a
\* domain-wide forward, d2 still unverified.
InitIngestDomains ==
  /\ user_domains =
       [d \in Domains |->
          [user_id |-> OwnerOf(d), is_verified |-> IF d = "d1" THEN 1 ELSE 0,
           status |-> IF d = "d1" THEN "active" ELSE "trial"]]
  /\ domain_verifications =
       [d \in Domains |-> [t \in VerificationTypes |-> IF d = "d1" THEN 1 ELSE 0]]
  /\ InitDomainRest
  /\ dns = [d \in Domains |-> DnsGood]

InitIngest == InitMailboxes /\ InitIngestStore /\ InitIngestDomains

(***************************************************************************)
(* EmailRouter.getRoutingInfo: the recipient's domain is looked up among   *)
(* the user domains with is_verified = 1 (left-joined with its forward),   *)
(* then among the system domains.  The system-forward variant adds the     *)
(* address's rule of email_forwards to a system route.                     *)
(***************************************************************************)
NoRoute == [type |-> "none", forwardTo |-> NULL, userId |-> NULL]

CustomDomainRows(domain) ==
  {d \in Domains : d = domain /\ user_domains[d].is_verified = 1}

getRoutingInfo(recipientEmail) ==
  LET domain == DomainOf(recipientEmail)
  IN IF CustomDomainRows(domain) # {}
     THEN [type |-> "custom", forwardTo |-> domain_forwards[domain],
           userId |-> user_domains[domain].user_id]
     ELSE IF domain \in SystemDomains
     THEN [type |-> "system", forwardTo |-> NULL, userId |-> NULL]
     ELSE NoRoute

getRoutingInfoSysFwd(recipientEmail) ==
  LET routing == getRoutingInfo(recipientEmail)
  IN IF routing.type = "system"
     THEN [routing EXCEPT !.forwardTo = email_forwards[recipientEmail]]
     ELSE routing

(***************************************************************************)
(* Lookups, rows and the unit of work.                                     *)
(***************************************************************************)
\* SELECT ... FROM premium_emails WHERE email = ? AND expires_at > NOW()
ActivePremium(a, t) ==
  {id \in DOMAIN premium_emails :
     premium_emails[id].email = a /\ premium_emails[id].expires_at > t}

ActiveTemp_IgnoresExpiry(a, t) ==
  {id \in DOMAIN temp_emails : temp_emails[id].email = a}

\* SELECT id FROM temp_emails WHERE email = ? AND expires_at > NOW()
ActiveTemp(a, t) ==
  {id \in DOMAIN temp_emails :
     temp_emails[id].email = a /\ temp_emails[id].expires_at > t}

\* SELECT * FROM temp_emails WHERE email = ?
AnyTemp(a) == {id \in DOMAIN temp_emails : temp_emails[id].email = a}

First(rows) == CHOOSE id \in rows : TRUE

ExpiresAt(id) ==
  IF id \in DOMAIN premium_emails THEN premium_emails[id].expires_at
  ELSE temp_emails[id].expires_at

\* An identifier derived from the notification instead of drawn afresh.
emailId_FromNotification(r) == 0

\* uuidv4() / UUID(): a fresh identifier per message; the request's number
\* stands for it.
emailId(r) == r

\* result.insertId of an INSERT into a table whose key is not AUTO_INCREMENT.
InsertId == 0

EmailRow(r, table) ==
  [table |-> table, req |-> r, n |-> 0, email_id |-> emailId(r),
   mailbox |-> req[r].mailbox, arrived |-> req[r].t0]

AttachmentRow(r, table, n, emailRef) ==
  [table |-> table, req |-> r, n |-> n, email_id |-> emailRef,
   mailbox |-> req[r].mailbox, arrived |-> req[r].t0]

AnalyticsRow(r) ==
  [table |-> "premium_analytics", req |-> r, n |-> 0, email_id |-> 0,
   mailbox |-> req[r].mailbox, arrived |-> req[r].t0]

EmailTables == {"premium_received_emails", "received_emails"}

AttachmentTables == {"premium_email_attachments", "email_attachments"}

CommitStore(store, staged) == store \cup staged

RollbackStore_KeepsStaged(store, staged) == store \cup staged

RollbackStore(store, staged) == store

Mail(r, to, withHeaders) ==
  [req |-> r, to |-> to, mailbox |-> req[r].mailbox, arrived |-> req[r].t0,
   inTx |-> req[r].txOpen,
   stored |-> \E row \in db : row.req = r /\ row.table \in EmailTables,
   xOriginalFrom |-> withHeaders, replyTo |-> withHeaders]

Upd(r, q) == req' = [req EXCEPT ![r] = q]

FirstErr(q, e) == IF q.err = "none" THEN e ELSE q.err

Respond500_Acknowledges(q, e) ==
  [q EXCEPT !.pc = "done", !.resp = Append(@, 200)]

\* An outer catch that only logs.
Respond500_OnlyLogs(q, e) ==
  [q EXCEPT !.pc = "done", !.err = FirstErr(q, e)]

\* The webhook's outer catch: respond 500.
Respond500(q, e) ==
  [q EXCEPT !.pc = "done", !.resp = Append(@, 500), !.err = FirstErr(q, e)]

\* handleIncomingEmail rejects; every connection its finally blocks cover is
\* released.
Throws(q, e) ==
  [q EXCEPT !.pc = "done", !.out = "threw", !.err = FirstErr(q, e), !.conns = 0]

Tick ==
  /\ now < MaxNow
  /\ now' = now + 1
  /\ UNCHANGED <<premium_emails, temp_emails, email_forwards, db, sent, req>>
  /\ UNCHANGED <<verifierVars, domainVars, opVars>>

\* What the model keeps of a request once the next one has arrived: the
\* handlers hold no state between requests, the store and the outbox do.
ReqClosed == [ReqIdle EXCEPT !.pc = "closed"]

\* A notification arrives (webhook) or a caller invokes handleIncomingEmail
\* with emailData whose tempEmailId is the recipient's temp_emails row, if any.
\* Requests are taken one after the other.
Receive(r, h, a, n) ==
  /\ req[r].pc = "idle"
  /\ \A o \in Reqs : o < r => req[o].pc \in {"done", "closed"}
  /\ req' = [o \in Reqs |->
               IF o = r
               THEN [ReqIdle EXCEPT
                       !.pc = IF h = "webhook" THEN "parse" ELSE "r_route",
                       !.handler = h, !.rcpt = a, !.natt = n, !.t0 = now,
                       !.mailbox = IF h # "webhook" /\ AnyTemp(a) # {}
                                   THEN First(AnyTemp(a)) ELSE NULL]
               ELSE IF req[o].pc = "done" THEN ReqClosed ELSE req[o]]
  /\ UNCHANGED <<premium_emails, temp_emails, email_forwards, now, db, sent>>
  /\ UNCHANGED <<verifierVars, domainVars, opVars>>

(***************************************************************************)
(* Redelivery: the upstream relay posts the same notification again, at    *)
(* any moment, also while earlier deliveries of it are still being served. *)
(* Each delivery is a request of its own to POST /email/incoming.          *)
(***************************************************************************)
MaxDeliveries == 2

Deliveries == 1..MaxDeliveries

Deliver(r, a, n) ==
  /\ req[r].pc = "idle"
  /\ r > 1 => /\ req[r - 1].pc # "idle"
              /\ a = req[1].rcpt /\ n = req[1].natt
  /\ Upd(r, [ReqIdle EXCEPT !.pc = "parse", !.handler = "webhook", !.rcpt = a,
                            !.natt = n, !.t0 = now])
  /\ UNCHANGED <<premium_emails, temp_emails, email_forwards, now, db, sent>>
  /\ UNCHANGED <<verifierVars, domainVars, opVars>>

(***************************************************************************)
(* POST /email/incoming.                                                   *)
(***************************************************************************)
\* The content types of a notification: the one express.urlencoded parses,
\* and any other, which leaves req.body without the fields the handler
\* reads, so that reading them or parsing the missing body throws.
Encodings == {"form", "other"}

\* req.body.body, simpleParser and the cleaning of sender, subject and
\* recipient, all inside the outer try.
WebhookParse(r, enc, ok) ==
  /\ req[r].pc = "parse"
  /\ Upd(r, IF enc # "form" THEN [Respond500(req[r], "encoding") EXCEPT !.enc = enc]
            ELSE IF ok THEN [req[r] EXCEPT !.pc = "w_premium", !.enc = enc]
            ELSE [Respond500(req[r], "parse") EXCEPT !.enc = enc])
  /\ UNCHANGED <<premium_emails, temp_emails, email_forwards, now, db, sent>>
  /\ UNCHANGED <<verifierVars, domainVars, opVars>>

WebhookPremiumLookup(r, ok) ==
  /\ req[r].pc = "w_premium"
  /\ LET premiumEmails == ActivePremium(req[r].rcpt, now)
     IN Upd(r, IF ~ok THEN Respond500(req[r], "query")
               ELSE IF premiumEmails # {}
               THEN [req[r] EXCEPT
                       !.pc = "w_conn", !.branch = "premium",
                       !.mailbox = First(premiumEmails),
                       !.fwdTo = premium_emails[First(premiumEmails)].forward_to]
               ELSE [req[r] EXCEPT !.pc = "w_temp"])
  /\ UNCHANGED <<premium_emails, temp_emails, email_forwards, now, db, sent>>
  /\ UNCHANGED <<verifierVars, domainVars, opVars>>

WebhookTempLookup(r, ok) ==
  /\ req[r].pc = "w_temp"
  /\ LET tempEmails == ActiveTemp(req[r].rcpt, now)
     IN Upd(r, IF ~ok THEN Respond500(req[r], "query")
               ELSE IF tempEmails = {}
               THEN [req[r] EXCEPT !.pc = "done", !.branch = "noroute",
                                   !.resp = Append(@, 404)]
               ELSE [req[r] EXCEPT !.pc = "w_conn", !.branch = "temp",
                                   !.mailbox = First(tempEmails)])
  /\ UNCHANGED <<premium_emails, temp_emails, email_forwards, now, db, sent>>
  /\ UNCHANGED <<verifierVars, domainVars, opVars>>

WebhookGetConnection(r, ok) ==
  /\ req[r].pc = "w_conn"
  /\ Upd(r, IF ok THEN [req[r] EXCEPT !.pc = "w_begin", !.conns = 1]
            ELSE Respond500(req[r], "getConnection"))
  /\ UNCHANGED <<premium_emails, temp_emails, email_forwards, now, db, sent>>
  /\ UNCHANGED <<verifierVars, domainVars, opVars>>

\* beginTransaction is awaited before the inner try: when it rejects, neither
\* the inner catch nor the finally that releases the connection runs.
WebhookBeginTransaction(r, ok) ==
  /\ req[r].pc = "w_begin"
  /\ Upd(r, IF ok THEN [req[r] EXCEPT !.pc = "w_email", !.txOpen = TRUE]
            ELSE Respond500(req[r], "begin"))
  /\ UNCHANGED <<premium_emails, temp_emails, email_forwards, now, db, sent>>
  /\ UNCHANGED <<verifierVars, domainVars, opVars>>

WebhookAfterInsert(q) ==
  IF q.i < q.natt THEN "w_att"
  ELSE IF q.branch = "premium" /\ q.fwdTo # NULL THEN "w_send"
  ELSE "w_commit"

WebhookEmailTable(q) ==
  IF q.branch = "premium" THEN "premium_received_emails" ELSE "received_emails"

WebhookAttachmentTable(q) ==
  IF q.branch = "premium" THEN "premium_email_attachments" ELSE "email_attachments"

WebhookInsertEmail(r, ok) ==
  /\ req[r].pc = "w_email"
  /\ Upd(r, IF ok
            THEN [req[r] EXCEPT
                    !.staged = @ \cup {EmailRow(r, WebhookEmailTable(req[r]))},
                    !.writes = @ + 1,
                    !.pc = WebhookAfterInsert(req[r])]
            ELSE [req[r] EXCEPT !.pc = "w_rollback", !.err = "email",
                                !.writes = @ + 1])
  /\ UNCHANGED <<premium_emails, temp_emails, email_forwards, now, db, sent>>
  /\ UNCHANGED <<verifierVars, domainVars, opVars>>

WebhookInsertAttachment(r, ok) ==
  /\ req[r].pc = "w_att"
  /\ LET n == req[r].i + 1
     IN Upd(r, IF ok
               THEN [req[r] EXCEPT
                       !.staged = @ \cup {AttachmentRow(r, WebhookAttachmentTable(req[r]),
                                                        n, emailId(r))},
                       !.i = n, !.writes = @ + 1,
                       !.pc = WebhookAfterInsert([req[r] EXCEPT !.i = n])]
               ELSE [req[r] EXCEPT !.pc = "w_rollback", !.err = "attachment",
                                   !.attFailed = n, !.writes = @ + 1])
  /\ UNCHANGED <<premium_emails, temp_emails, email_forwards, now, db, sent>>
  /\ UNCHANGED <<verifierVars, domainVars, opVars>>

\* mailTransporter.sendMail inside the transaction; its own try/catch logs a
\* failure and goes on.  The mail carries no headers and no replyTo.
WebhookForward(r, ok) ==
  /\ req[r].pc = "w_send"
  /\ IF ok
     THEN /\ sent' = sent \cup {Mail(r, req[r].fwdTo, FALSE)}
          /\ Upd(r, [req[r] EXCEPT !.pc = "w_analytics", !.fwd = "sent"])
     ELSE /\ sent' = sent
          /\ Upd(r, [req[r] EXCEPT !.pc = "w_commit", !.fwd = "failed"])
  /\ UNCHANGED <<premium_emails, temp_emails, email_forwards, now, db>>
  /\ UNCHANGED <<verifierVars, domainVars, opVars>>

WebhookLogForward(r, ok) ==
  /\ req[r].pc = "w_analytics"
  /\ Upd(r, [req[r] EXCEPT
               !.pc = "w_commit", !.writes = @ + 1,
               !.staged = IF ok THEN @ \cup {AnalyticsRow(r)} ELSE @])
  /\ UNCHANGED <<premium_emails, temp_emails, email_forwards, now, db, sent>>
  /\ UNCHANGED <<verifierVars, domainVars, opVars>>

\* commit, then res.status(200) and the finally's release follow without
\* another await.
WebhookCommit(r, ok) ==
  /\ req[r].pc = "w_commit"
  /\ IF ok
     THEN /\ db' = CommitStore(db, req[r].staged)
          /\ Upd(r, [req[r] EXCEPT !.pc = "done", !.staged = {}, !.txOpen = FALSE,
                                   !.conns = 0, !.resp = Append(@, 200),
                                   !.writes = @ + 1])
     ELSE /\ db' = db
          /\ Upd(r, [req[r] EXCEPT !.pc = "w_rollback", !.err = "commit",
                                   !.writes = @ + 1])
  /\ UNCHANGED <<premium_emails, temp_emails, email_forwards, now, sent>>
  /\ UNCHANGED <<verifierVars, domainVars, opVars>>

\* catch: rollback and rethrow; finally: release; outer catch: 500.
WebhookRollback(r, ok) ==
  /\ req[r].pc = "w_rollback"
  /\ db' = RollbackStore(db, req[r].staged)
  /\ Upd(r, [Respond500(req[r], "rollback") EXCEPT
               !.staged = {}, !.txOpen = FALSE, !.conns = 0,
               !.rb = IF ok THEN "ok" ELSE "failed"])
  /\ UNCHANGED <<premium_emails, temp_emails, email_forwards, now, sent>>
  /\ UNCHANGED <<verifierVars, domainVars, opVars>>

(***************************************************************************)
(* EmailRouter.handleIncomingEmail, its three variants.                    *)
(***************************************************************************)
RoutingFor(h, a) ==
  IF h = "routerSysFwd" THEN getRoutingInfoSysFwd(a) ELSE getRoutingInfo(a)

\* getRoutingInfo takes and releases its own connection.
RouterResolve(r, ok) ==
  /\ req[r].pc = "r_route"
  /\ LET routing == RoutingFor(req[r].handler, req[r].rcpt)
     IN Upd(r, IF ~ok THEN Throws(req[r], "query")
               ELSE IF routing = NoRoute THEN Throws(req[r], "invalid_domain")
               ELSE [req[r] EXCEPT
                       !.rtype = routing.type, !.fwdTo = routing.forwardTo,
                       !.pc = IF req[r].handler = "routerPlain"
                              THEN "s_conn" ELSE "r_conn"])
  /\ UNCHANGED <<premium_emails, temp_emails, email_forwards, now, db, sent>>
  /\ UNCHANGED <<verifierVars, domainVars, opVars>>

RouterGetConnection(r, ok) ==
  /\ req[r].pc = "r_conn"
  /\ Upd(r, IF ok THEN [req[r] EXCEPT !.pc = "r_temp", !.conns = @ + 1]
            ELSE Throws(req[r], "getConnection"))
  /\ UNCHANGED <<premium_emails, temp_emails, email_forwards, now, db, sent>>
  /\ UNCHANGED <<verifierVars, domainVars, opVars>>

RouterForwards(q) ==
  IF q.handler = "router" THEN q.rtype = "custom" /\ q.fwdTo # NULL
  ELSE q.fwdTo # NULL

RouterTempLookup(r, ok) ==
  /\ req[r].pc = "r_temp"
  /\ LET tempEmail == AnyTemp(req[r].rcpt)
     IN Upd(r, IF ~ok THEN Throws(req[r], "query")
               ELSE IF req[r].handler = "router" /\ tempEmail = {}
               THEN Throws(req[r], "temp_not_found")
               ELSE [req[r] EXCEPT
                       !.pc = IF RouterForwards(req[r]) THEN "r_fwd" ELSE "s_conn"])
  /\ UNCHANGED <<premium_emails, temp_emails, email_forwards, now, db, sent>>
  /\ UNCHANGED <<verifierVars, domainVars, opVars>>

\* forwardEmail: sendMail with X-Original-From and replyTo; a failure is
\* logged and thrown again.
RouterForward(r, ok) ==
  /\ req[r].pc = "r_fwd"
  /\ IF ok
     THEN /\ sent' = sent \cup {Mail(r, req[r].fwdTo, TRUE)}
          /\ Upd(r, [req[r] EXCEPT !.pc = "s_conn", !.fwd = "sent"])
     ELSE /\ sent' = sent
          /\ Upd(r, [Throws(req[r], "forward") EXCEPT !.fwd = "failed"])
  /\ UNCHANGED <<premium_emails, temp_emails, email_forwards, now, db>>
  /\ UNCHANGED <<verifierVars, domainVars, opVars>>

(***************************************************************************)
(* EmailRouter.storeEmail (with insertEmail and insertAttachments).        *)
(***************************************************************************)
StoreGetConnection(r, ok) ==
  /\ req[r].pc = "s_conn"
  /\ Upd(r, IF ok THEN [req[r] EXCEPT !.pc = "s_begin", !.conns = @ + 1]
            ELSE Throws(req[r], "getConnection"))
  /\ UNCHANGED <<premium_emails, temp_emails, email_forwards, now, db, sent>>
  /\ UNCHANGED <<verifierVars, domainVars, opVars>>

StoreBeginTransaction(r, ok) ==
  /\ req[r].pc = "s_begin"
  /\ Upd(r, IF ok THEN [req[r] EXCEPT !.pc = "s_email", !.txOpen = TRUE]
            ELSE [req[r] EXCEPT !.pc = "s_rollback", !.err = "begin"])
  /\ UNCHANGED <<premium_emails, temp_emails, email_forwards, now, db, sent>>
  /\ UNCHANGED <<verifierVars, domainVars, opVars>>

StoreAfterInsert(q) == IF q.i < q.natt THEN "s_att" ELSE "s_commit"

insertEmail(r, ok) ==
  /\ req[r].pc = "s_email"
  /\ Upd(r, IF ok
            THEN [req[r] EXCEPT !.staged = @ \cup {EmailRow(r, "received_emails")},
                                !.writes = @ + 1,
                                !.pc = StoreAfterInsert(req[r])]
            ELSE [req[r] EXCEPT !.pc = "s_rollback", !.err = "email",
                                !.writes = @ + 1])
  /\ UNCHANGED <<premium_emails, temp_emails, email_forwards, now, db, sent>>
  /\ UNCHANGED <<verifierVars, domainVars, opVars>>

insertAttachments(r, ok) ==
  /\ req[r].pc = "s_att"
  /\ LET n == req[r].i + 1
     IN Upd(r, IF ok
               THEN [req[r] EXCEPT
                       !.staged = @ \cup {AttachmentRow(r, "email_attachments", n, InsertId)},
                       !.i = n, !.writes = @ + 1,
                       !.pc = StoreAfterInsert([req[r] EXCEPT !.i = n])]
               ELSE [req[r] EXCEPT !.pc = "s_rollback", !.err = "attachment",
                                   !.attFailed = n, !.writes = @ + 1])
  /\ UNCHANGED <<premium_emails, temp_emails, email_forwards, now, db, sent>>
  /\ UNCHANGED <<verifierVars, domainVars, opVars>>

\* commit; storeEmail's finally and the caller's finally release.
StoreCommit(r, ok) ==
  /\ req[r].pc = "s_commit"
  /\ IF ok
     THEN /\ db' = CommitStore(db, req[r].staged)
          /\ Upd(r, [req[r] EXCEPT !.pc = "done", !.staged = {}, !.txOpen = FALSE,
                                   !.conns = 0, !.out = "returned",
                                   !.writes = @ + 1])
     ELSE /\ db' = db
          /\ Upd(r, [req[r] EXCEPT !.pc = "s_rollback", !.err = "commit",
                                   !.writes = @ + 1])
  /\ UNCHANGED <<premium_emails, temp_emails, email_forwards, now, sent>>
  /\ UNCHANGED <<verifierVars, domainVars, opVars>>

StoreRollback(r, ok) ==
  /\ req[r].pc = "s_rollback"
  /\ db' = RollbackStore(db, req[r].staged)
  /\ Upd(r, [Throws(req[r], "rollback") EXCEPT
               !.staged = {}, !.txOpen = FALSE,
               !.rb = IF ok THEN "ok" ELSE "failed"])
  /\ UNCHANGED <<premium_emails, temp_emails, email_forwards, now, sent>>
  /\ UNCHANGED <<verifierVars, domainVars, opVars>>

Next ==
  \/ Tick
  \/ \E r \in Reqs, h \in Handlers, a \in Recipients, n \in 0..MaxAtt : Receive(r, h, a, n)
  \/ \E r \in Reqs, enc \in Encodings, ok \in BOOLEAN : WebhookParse(r, enc, ok)
  \/ \E r \in Reqs, ok \in BOOLEAN : WebhookPremiumLookup(r, ok)
  \/ \E r \in Reqs, ok \in BOOLEAN : WebhookTempLookup(r, ok)
  \/ \E r \in Reqs, ok \in BOOLEAN : WebhookGetConnection(r, ok)
  \/ \E r \in Reqs, ok \in BOOLEAN : WebhookBeginTransaction(r, ok)
  \/ \E r \in Reqs, ok \in BOOLEAN : WebhookInsertEmail(r, ok)
  \/ \E r \in Reqs, ok \in BOOLEAN : WebhookInsertAttachment(r, ok)
  \/ \E r \in Reqs, ok \in BOOLEAN : WebhookForward(r, ok)
  \/ \E r \in Reqs, ok \in BOOLEAN : WebhookLogForward(r, ok)
  \/ \E r \in Reqs, ok \in BOOLEAN : WebhookCommit(r, ok)
  \/ \E r \in Reqs, ok \in BOOLEAN : WebhookRollback(r, ok)
  \/ \E r \in Reqs, ok \in BOOLEAN : RouterResolve(r, ok)
  \/ \E r \in Reqs, ok \in BOOLEAN : RouterGetConnection(r, ok)
  \/ \E r \in Reqs, ok \in BOOLEAN : RouterTempLookup(r, ok)
  \/ \E r \in Reqs, ok \in BOOLEAN : RouterForward(r, ok)
  \/ \E r \in Reqs, ok \in BOOLEAN : StoreGetConnection(r, ok)
  \/ \E r \in Reqs, ok \in BOOLEAN : StoreBeginTransaction(r, ok)
  \/ \E r \in Reqs, ok \in BOOLEAN : insertEmail(r, ok)
  \/ \E r \in Reqs, ok \in BOOLEAN : insertAttachments(r, ok)
  \/ \E r \in Reqs, ok \in BOOLEAN : StoreCommit(r, ok)
  \/ \E r \in Reqs, ok \in BOOLEAN : StoreRollback(r, ok)

NextRedelivery ==
  \/ \E r \in Deliveries, a \in Recipients, n \in 0..MaxAtt : Deliver(r, a, n)
  \/ \E r \in Deliveries, enc \in Encodings, ok \in BOOLEAN : WebhookParse(r, enc, ok)
  \/ \E r \in Deliveries, ok \in BOOLEAN : WebhookPremiumLookup(r, ok)
  \/ \E r \in Deliveries, ok \in BOOLEAN : WebhookTempLookup(r, ok)
  \/ \E r \in Deliveries, ok \in BOOLEAN : WebhookGetConnection(r, ok)
  \/ \E r \in Deliveries, ok \in BOOLEAN : WebhookBeginTransaction(r, ok)
  \/ \E r \in Deliveries, ok \in BOOLEAN : WebhookInsertEmail(r, ok)
  \/ \E r \in Deliveries, ok \in BOOLEAN : WebhookInsertAttachment(r, ok)
  \/ \E r \in Deliveries, ok \in BOOLEAN : WebhookForward(r, ok)
  \/ \E r \in Deliveries, ok \in BOOLEAN : WebhookLogForward(r, ok)
  \/ \E r \in Deliveries, ok \in BOOLEAN : WebhookCommit(r, ok)
  \/ \E r \in Deliveries, ok \in BOOLEAN : WebhookRollback(r, ok)

NextDomain ==
  \/ \E d \in Domains, s \in DnsSamples : EnvDnsChange(d, s)
  \/ \E u \in Users, d \in Domains, ok \in BOOLEAN : VerifyById(u, d, ok)
  \/ \E u \in Users, d \in CustomDomains, ok \in BOOLEAN : PremiumVerifyCheck(u, d, ok)
  \/ \E ok \in BOOLEAN : PremiumVerifyWrite(ok)
  \/ \E ok \in BOOLEAN : MonitorGetConnection(ok)
  \/ \E ok \in BOOLEAN : MonitorSelect(ok)
  \/ \E d \in Domains : MonitorVerify(d)
  \/ \E ok \in BOOLEAN : MonitorMarkInactive(ok)
  \/ \E ok \in BOOLEAN : MonitorLogIssue(ok)
  \/ \E ok \in BOOLEAN : MonitorReactivate(ok)
  \/ MonitorRelease

\* The domain the sweep and the user's requests meet on.
RaceDomains == {"d1"}

\* The DNS states the race runs over: every check passes, or the MX lookup
\* times out and both verifiers fail the domain.
RaceDnsSamples == {DnsGood, DnsMxTimeout}

NextRace ==
  \/ \E d \in RaceDomains, s \in RaceDnsSamples : EnvDnsChange(d, s)
  \/ \E u \in Users, d \in RaceDomains, ok \in BOOLEAN : VerifyByIdSelect(u, d, ok)
  \/ \E ok \in BOOLEAN : VerifyByIdBegin(ok)
  \/ \E ok \in BOOLEAN : VerifyByIdUpdateVerifications(ok)
  \/ \E ok \in BOOLEAN : VerifyByIdUpdateDomain(ok)
  \/ \E ok \in BOOLEAN : VerifyByIdCommit(ok)
  \/ VerifyByIdRollback
  \/ \E u \in Users, d \in CustomDomains, ok \in BOOLEAN : PremiumVerifyCheck(u, d, ok)
  \/ \E ok \in BOOLEAN : PremiumVerifyWrite(ok)
  \/ \E ok \in BOOLEAN : MonitorGetConnection(ok)
  \/ \E ok \in BOOLEAN : MonitorSelect(ok)
  \/ \E d \in Domains : MonitorVerify(d)
  \/ \E ok \in BOOLEAN : MonitorMarkInactive(ok)
  \/ \E ok \in BOOLEAN : MonitorLogIssue(ok)
  \/ \E ok \in BOOLEAN : MonitorReactivate(ok)
  \/ MonitorRelease

(***************************************************************************)
(* SpecVerifier: the verifiers applied to every DNS state.                 *)
(***************************************************************************)
(***************************************************************************)
(* Mailbox creation: POST /create and POST /public/create of               *)
(* routes/emails.js, POST /emails and POST /emails/upgrade/:id of the      *)
(* premium routes.  The address is the `email` string of the request body, *)
(* stored as it is; none of the routes looks for a mailbox that already    *)
(* has it.  The first three write one row with one INSERT, so each is one  *)
(* step; the upgrade works in a transaction and is modelled step by step.  *)
(* The domain tables do not change while mailboxes are created.            *)
(***************************************************************************)
MaxCreate == 3

MailAddresses == {"both@d1", "temp@d1", "both@sys", "temp@sys"}

\* email.split('@')[0]
LocalOf(a) == IF a \in {"both@d1", "both@sys"} THEN "both" ELSE "temp"

HostOf(a) == IF a \in {"both@d1", "temp@d1"} THEN "d1" ELSE "sys"

\* `${local}@${domain}`
AddressAt(local, host) ==
  CHOOSE a \in MailAddresses : LocalOf(a) = local /\ HostOf(a) = host

\* Lifetimes in ticks of the store's clock: 48 hours, 2 months, 3 months.
PublicLifetime == 1

TempLifetime == 2

PremiumLifetime == 3

\* The table definitions are not part of these sources.  The model grants
\* them the most they can do for an address: a unique index on `email` in
\* each of the two mailbox tables, which makes an INSERT of an address the
\* same table already holds fail.  No index spans the two tables.
DuplicateKey(table, a) == \E k \in DOMAIN table : table[k].email = a

\* INSERT INTO temp_emails (id, user_id, email, domain_id, expires_at)
InsertTemp(table, id, u, a, life) ==
  (id :> [email |-> a, expires_at |-> now + life, user_id |-> u]) @@ table

\* INSERT INTO premium_emails (id, user_id, email, domain_id, expires_at, created_at)
InsertPremium(table, id, u, a) ==
  (id :> [email |-> a, forward_to |-> NULL, expires_at |-> now + PremiumLifetime,
          user_id |-> u]) @@ table

\* DELETE FROM temp_emails WHERE id = ?
DeleteTemp(table, id) == [k \in DOMAIN table \ {id} |-> table[k]]

\* SELECT * FROM user_domains WHERE id = ? AND user_id = ?
OwnsUserDomain(u, dom) ==
  dom \in DOMAIN user_domains /\ user_domains[dom].user_id = u

\* SELECT * FROM custom_domains WHERE id = ? AND user_id = ? AND status = 'verified'
OwnsVerifiedCustomDomain(u, dom) ==
  /\ dom \in DOMAIN custom_domains
  /\ custom_domains[dom].user_id = u
  /\ custom_domains[dom].status = "verified"

\* POST /create: a custom domain of the user, else a system domain, else 400.
\* ok: the queries up to and including the INSERT succeed.
CreateEmail(u, a, dom, ok) ==
  /\ uuids < MaxCreate
  /\ uuids' = uuids + 1
  /\ temp_emails' =
       IF ok /\ (OwnsUserDomain(u, dom) \/ dom \in SystemDomains)
             /\ ~DuplicateKey(temp_emails, a)
       THEN InsertTemp(temp_emails, uuids + 1, u, a, TempLifetime)
       ELSE temp_emails
  /\ UNCHANGED <<premium_emails, email_forwards, now, db, sent, req>>
  /\ UNCHANGED <<verifierVars, domainVars, vb, up, ad, dl>>

\* POST /public/create: no owner; a pending CAPTCHA answers 400 first.
PublicCreateEmail(a, captchaPending, ok) ==
  /\ uuids < MaxCreate
  /\ uuids' = uuids + 1
  /\ temp_emails' =
       IF ok /\ ~captchaPending /\ ~DuplicateKey(temp_emails, a)
       THEN InsertTemp(temp_emails, uuids + 1, NULL, a, PublicLifetime)
       ELSE temp_emails
  /\ UNCHANGED <<premium_emails, email_forwards, now, db, sent, req>>
  /\ UNCHANGED <<verifierVars, domainVars, vb, up, ad, dl>>

\* POST /emails: a verified custom domain of the user, else 403.
PremiumCreateEmail(u, a, dom, ok) ==
  /\ uuids < MaxCreate
  /\ uuids' = IF ok /\ OwnsVerifiedCustomDomain(u, dom) THEN uuids + 1 ELSE uuids
  /\ premium_emails' =
       IF ok /\ OwnsVerifiedCustomDomain(u, dom) /\ ~DuplicateKey(premium_emails, a)
       THEN InsertPremium(premium_emails, uuids + 1, u, a)
       ELSE premium_emails
  /\ UNCHANGED <<temp_emails, email_forwards, now, db, sent, req>>
  /\ UNCHANGED <<verifierVars, domainVars, vb, up, ad, dl>>

\* POST /emails/upgrade/:id up to uuidv4(): the domain, then the temporary
\* mailbox of the user; the new address keeps the local part.
UpgradeSelect(u, id, dom, ok) ==
  /\ up.pc = "idle"
  /\ uuids < MaxCreate
  /\ IF ok /\ OwnsVerifiedCustomDomain(u, dom)
        /\ id \in DOMAIN temp_emails /\ temp_emails[id].user_id = u
     THEN /\ up' = [UpIdle EXCEPT !.pc = "begin", !.id = id, !.u = u,
                      !.newId = uuids + 1,
                      !.newEmail = AddressAt(LocalOf(temp_emails[id].email), dom)]
          /\ uuids' = uuids + 1
     ELSE /\ up' = IF ok THEN UpIdle ELSE [UpIdle EXCEPT !.pc = "rollback"]
          /\ uuids' = uuids
  /\ UNCHANGED <<verifierVars, domainVars, ingestVars, vb, ad, dl>>

UpgradeBegin(ok) ==
  /\ up.pc = "begin"
  /\ up' = [up EXCEPT !.pc = IF ok THEN "insert" ELSE "rollback"]
  /\ UNCHANGED <<verifierVars, domainVars, ingestVars, vb, uuids, ad, dl>>

\* The premium row, staged on the connection until commit.
UpgradeInsert(ok) ==
  /\ up.pc = "insert"
  /\ up' = IF ok /\ ~DuplicateKey(premium_emails, up.newEmail)
           THEN [up EXCEPT !.pc = "delete",
                           !.staged = InsertPremium(<<>>, up.newId, up.u, up.newEmail)]
           ELSE [up EXCEPT !.pc = "rollback"]
  /\ UNCHANGED <<verifierVars, domainVars, ingestVars, vb, uuids, ad, dl>>

UpgradeDelete(ok) ==
  /\ up.pc = "delete"
  /\ up' = [up EXCEPT !.pc = IF ok THEN "commit" ELSE "rollback"]
  /\ UNCHANGED <<verifierVars, domainVars, ingestVars, vb, uuids, ad, dl>>

UpgradeCommit(ok) ==
  /\ up.pc = "commit"
  /\ IF ok /\ ~DuplicateKey(premium_emails, up.newEmail)
     THEN /\ premium_emails' = up.staged @@ premium_emails
          /\ temp_emails' = DeleteTemp(temp_emails, up.id)
          /\ up' = UpIdle
     ELSE /\ UNCHANGED <<premium_emails, temp_emails>>
          /\ up' = [up EXCEPT !.pc = "rollback"]
  /\ UNCHANGED <<email_forwards, now, db, sent, req>>
  /\ UNCHANGED <<verifierVars, domainVars, vb, uuids, ad, dl>>

\* catch: rollback, 500; finally: release.
UpgradeRollback ==
  /\ up.pc = "rollback"
  /\ up' = UpIdle
  /\ UNCHANGED <<verifierVars, domainVars, ingestVars, vb, uuids, ad, dl>>

NextCreate ==
  \/ Tick
  \/ \E u \in Users, a \in MailAddresses, dom \in Domains \cup SystemDomains,
        ok \in BOOLEAN : CreateEmail(u, a, dom, ok)
  \/ \E a \in MailAddresses, captchaPending \in BOOLEAN, ok \in BOOLEAN :
        PublicCreateEmail(a, captchaPending, ok)
  \/ \E u \in Users, a \in MailAddresses, dom \in Domains, ok \in BOOLEAN :
        PremiumCreateEmail(u, a, dom, ok)
  \/ \E u \in Users, id \in 1..MaxCreate, dom \in Domains, ok \in BOOLEAN :
        UpgradeSelect(u, id, dom, ok)
  \/ \E ok \in BOOLEAN : UpgradeBegin(ok)
  \/ \E ok \in BOOLEAN : UpgradeInsert(ok)
  \/ \E ok \in BOOLEAN : UpgradeDelete(ok)
  \/ \E ok \in BOOLEAN : UpgradeCommit(ok)
  \/ UpgradeRollback

(***************************************************************************)
(* POST /custom: a custom domain is added with its three verification      *)
(* records in one transaction.  Rows inserted on the connection are staged *)
(* in the handler's state and reach the tables at commit.  One request per *)
(* domain name is in flight at a time; requests for different domains      *)
(* interleave.                                                             *)
(***************************************************************************)
\* The verifications array, in the order the loop inserts it.
VerificationOrder == <<"MX", "TXT", "DKIM">>

\* INSERT INTO user_domains (id, user_id, domain, status) VALUES (?, ?, ?, 'trial')
NewDomainRow(u) == [user_id |-> u, is_verified |-> 0, status |-> "trial"]

AdUpd(d, q) == ad' = [ad EXCEPT ![d] = q]

\* What a rollback leaves of the staged domain row in user_domains.
RollbackDomain_KeepsRow(ud, d, q) ==
  IF q.rowStaged THEN (d :> NewDomainRow(q.u)) @@ ud ELSE ud

RollbackDomain(ud, d, q) == ud

\* What a commit makes of the staged rows.
CommitDomain(ud, d, q) ==
  IF q.rowStaged THEN (d :> NewDomainRow(q.u)) @@ ud ELSE ud

CommitVerifications(dv, d, q) ==
  IF q.types # {} THEN (d :> [t \in q.types |-> 0]) @@ dv ELSE dv

\* The catch block's target: rollback, then 500.
AdFail(q, e) == [q EXCEPT !.pc = "rollback", !.err = e]

\* getConnection, then the two checks of the body: 400 without a transaction.
AddDomainStart(u, d, valid, ok) ==
  /\ ad[d].pc \in {"idle", "done"}
  /\ ok
  /\ AdUpd(d, IF valid THEN [AdIdle EXCEPT !.pc = "begin", !.u = u]
              ELSE [AdIdle EXCEPT !.pc = "done", !.u = u, !.resp = 400])
  /\ UNCHANGED <<verifierVars, domainVars, ingestVars, vb, uuids, up, dl>>

AddDomainBegin(d, ok) ==
  /\ ad[d].pc = "begin"
  /\ AdUpd(d, IF ok THEN [ad[d] EXCEPT !.pc = "existing"] ELSE AdFail(ad[d], "begin"))
  /\ UNCHANGED <<verifierVars, domainVars, ingestVars, vb, uuids, up, dl>>

\* SELECT * FROM user_domains WHERE domain = ?; a hit rolls back and answers
\* 409, and a rollback that rejects there goes to the catch block.
AddDomainCheckExisting(d, ok, rbOk) ==
  /\ ad[d].pc = "existing"
  /\ AdUpd(d, IF ~ok THEN AdFail(ad[d], "query")
              ELSE IF d \in DOMAIN user_domains
                   THEN IF rbOk THEN [ad[d] EXCEPT !.pc = "done", !.resp = 409]
                        ELSE AdFail(ad[d], "rollback")
              ELSE [ad[d] EXCEPT !.pc = "domain"])
  /\ UNCHANGED <<verifierVars, domainVars, ingestVars, vb, uuids, up, dl>>

AddDomainInsertDomain(d, ok) ==
  /\ ad[d].pc = "domain"
  /\ AdUpd(d, IF ok THEN [ad[d] EXCEPT !.pc = "verifications", !.rowStaged = TRUE]
              ELSE AdFail(ad[d], "domain"))
  /\ UNCHANGED <<verifierVars, domainVars, ingestVars, vb, uuids, up, dl>>

\* One turn of the loop over the verifications.
AddDomainInsertVerification(d, ok) ==
  /\ ad[d].pc = "verifications"
  /\ LET n == Cardinality(ad[d].types) + 1
         types == ad[d].types \cup {VerificationOrder[n]}
     IN AdUpd(d, IF ~ok THEN AdFail(ad[d], "verification")
                 ELSE [ad[d] EXCEPT !.types = types,
                                    !.pc = IF n = Len(VerificationOrder)
                                           THEN "commit" ELSE "verifications"])
  /\ UNCHANGED <<verifierVars, domainVars, ingestVars, vb, uuids, up, dl>>

AddDomainCommit(d, ok) ==
  /\ ad[d].pc = "commit"
  /\ IF ok
     THEN /\ user_domains' = CommitDomain(user_domains, d, ad[d])
          /\ domain_verifications' = CommitVerifications(domain_verifications, d, ad[d])
          /\ AdUpd(d, [ad[d] EXCEPT !.pc = "select", !.rowStaged = FALSE, !.types = {}])
     ELSE /\ UNCHANGED <<user_domains, domain_verifications>>
          /\ AdUpd(d, AdFail(ad[d], "commit"))
  /\ UNCHANGED <<domain_forwards, domain_issues, custom_domains, dns, mon, sweeps,
                 pv, evidence, mlast>>
  /\ UNCHANGED <<verifierVars, ingestVars, vb, uuids, up, dl>>

\* SELECT * FROM user_domains WHERE id = ? and res.json(newDomain[0]).
AddDomainSelect(d, ok) ==
  /\ ad[d].pc = "select"
  /\ AdUpd(d, IF ok THEN [ad[d] EXCEPT !.pc = "done", !.resp = 200]
              ELSE AdFail(ad[d], "select"))
  /\ UNCHANGED <<verifierVars, domainVars, ingestVars, vb, uuids, up, dl>>

\* catch: rollback and 500; a rollback that rejects leaves the handler
\* without a response, and the lost connection discards what was staged.
AddDomainRollback(d, ok) ==
  /\ ad[d].pc = "rollback"
  /\ user_domains' = RollbackDomain(user_domains, d, ad[d])
  /\ AdUpd(d, [ad[d] EXCEPT !.pc = "done", !.rowStaged = FALSE, !.types = {},
                            !.resp = IF ok THEN 500 ELSE 0])
  /\ UNCHANGED <<domain_verifications, domain_forwards, domain_issues, custom_domains,
                 dns, mon, sweeps, pv, evidence, mlast>>
  /\ UNCHANGED <<verifierVars, ingestVars, vb, uuids, up, dl>>

NextAddDomain ==
  \/ \E u \in Users, d \in Domains, valid \in BOOLEAN, ok \in BOOLEAN :
        AddDomainStart(u, d, valid, ok)
  \/ \E d \in Domains, ok \in BOOLEAN : AddDomainBegin(d, ok)
  \/ \E d \in Domains, ok \in BOOLEAN, rbOk \in BOOLEAN : AddDomainCheckExisting(d, ok, rbOk)
  \/ \E d \in Domains, ok \in BOOLEAN : AddDomainInsertDomain(d, ok)
  \/ \E d \in Domains, ok \in BOOLEAN : AddDomainInsertVerification(d, ok)
  \/ \E d \in Domains, ok \in BOOLEAN : AddDomainCommit(d, ok)
  \/ \E d \in Domains, ok \in BOOLEAN : AddDomainSelect(d, ok)
  \/ \E d \in Domains, ok \in BOOLEAN : AddDomainRollback(d, ok)

(***************************************************************************)
(* DELETE /delete/:id of routes/emails.js: in one transaction the received *)
(* e-mails of the mailbox are deleted, then the mailbox itself if it is    *)
(* the user's; a mailbox delete that affects no row rolls back and answers *)
(* 404.  Deletions are staged in the handler's state and reach the tables  *)
(* at commit.  temp0 and db0 remember the tables as the request found them. *)
(***************************************************************************)
MailboxIds == {"t1", "t2", "t3", "t9"}

ReceivedRow(mailbox, k) ==
  [table |-> "received_emails", req |-> k, n |-> 0, email_id |-> k,
   mailbox |-> mailbox, arrived |-> 0]

\* DELETE FROM received_emails WHERE temp_email_id = ?
WithoutReceived(store, id) ==
  {row \in store : ~(row.table = "received_emails" /\ row.mailbox = id)}

\* deleteTempResult.affectedRows of DELETE FROM temp_emails WHERE id = ? AND user_id = ?
OwnsMailbox(table, u, id) == id \in DOMAIN table /\ table[id].user_id = u

\* What a rollback leaves of the staged deletion of received e-mails.
RollbackDelete_KeepsDeletion(store, q) ==
  IF q.delReceived THEN WithoutReceived(store, q.id) ELSE store

RollbackDelete(store, q) == store

DlFail(q, e) == [q EXCEPT !.pc = "rollback", !.err = e]

\* pool.getConnection(), before the try.
DeleteStart(u, id, ok) ==
  /\ dl.pc \in {"idle", "done"}
  /\ ok
  /\ dl' = [DlIdle EXCEPT !.pc = "begin", !.u = u, !.id = id,
                          !.temp0 = temp_emails, !.db0 = db]
  /\ UNCHANGED <<verifierVars, domainVars, ingestVars, vb, uuids, up, ad>>

DeleteBegin(ok) ==
  /\ dl.pc = "begin"
  /\ dl' = IF ok THEN [dl EXCEPT !.pc = "received"] ELSE DlFail(dl, "begin")
  /\ UNCHANGED <<verifierVars, domainVars, ingestVars, vb, uuids, up, ad>>

DeleteReceived(ok) ==
  /\ dl.pc = "received"
  /\ dl' = IF ok THEN [dl EXCEPT !.pc = "temp", !.delReceived = TRUE]
           ELSE DlFail(dl, "received")
  /\ UNCHANGED <<verifierVars, domainVars, ingestVars, vb, uuids, up, ad>>

\* The mailbox delete; no affected row leads to the rollback of line 162.
DeleteMailbox(ok) ==
  /\ dl.pc = "temp"
  /\ dl' = IF ~ok THEN DlFail(dl, "temp")
           ELSE IF OwnsMailbox(temp_emails, dl.u, dl.id)
                THEN [dl EXCEPT !.pc = "commit", !.delTemp = TRUE]
           ELSE [dl EXCEPT !.pc = "notfound"]
  /\ UNCHANGED <<verifierVars, domainVars, ingestVars, vb, uuids, up, ad>>

\* await connection.rollback(); return res.status(404)
DeleteNotFound(ok) ==
  /\ dl.pc = "notfound"
  /\ db' = IF ok THEN RollbackDelete(db, dl) ELSE db
  /\ dl' = IF ok THEN [dl EXCEPT !.pc = "done", !.resp = 404, !.delReceived = FALSE]
           ELSE DlFail(dl, "rollback")
  /\ UNCHANGED <<premium_emails, temp_emails, email_forwards, now, sent, req>>
  /\ UNCHANGED <<verifierVars, domainVars, vb, uuids, up, ad>>

DeleteCommit(ok) ==
  /\ dl.pc = "commit"
  /\ IF ok
     THEN /\ db' = IF dl.delReceived THEN WithoutReceived(db, dl.id) ELSE db
          /\ temp_emails' = IF dl.delTemp THEN DeleteTemp(temp_emails, dl.id)
                            ELSE temp_emails
          /\ dl' = [dl EXCEPT !.pc = "done", !.resp = 200,
                              !.delReceived = FALSE, !.delTemp = FALSE]
     ELSE /\ UNCHANGED <<db, temp_emails>>
          /\ dl' = DlFail(dl, "commit")
  /\ UNCHANGED <<premium_emails, email_forwards, now, sent, req>>
  /\ UNCHANGED <<verifierVars, domainVars, vb, uuids, up, ad>>

\* catch: rollback and 400; a rollback that rejects leaves the handler
\* without a response, and the lost connection discards what was staged.
DeleteRollback(ok) ==
  /\ dl.pc = "rollback"
  /\ db' = RollbackDelete(db, dl)
  /\ dl' = [dl EXCEPT !.pc = "done", !.resp = IF ok THEN 400 ELSE 0,
                      !.delReceived = FALSE, !.delTemp = FALSE]
  /\ UNCHANGED <<premium_emails, temp_emails, email_forwards, now, sent, req>>
  /\ UNCHANGED <<verifierVars, domainVars, vb, uuids, up, ad>>

NextDelete ==
  \/ \E u \in Users, id \in MailboxIds, ok \in BOOLEAN : DeleteStart(u, id, ok)
  \/ \E ok \in BOOLEAN : DeleteBegin(ok)
  \/ \E ok \in BOOLEAN : DeleteReceived(ok)
  \/ \E ok \in BOOLEAN : DeleteMailbox(ok)
  \/ \E ok \in BOOLEAN : DeleteNotFound(ok)
  \/ \E ok \in BOOLEAN : DeleteCommit(ok)
  \/ \E ok \in BOOLEAN : DeleteRollback(ok)

(***************************************************************************)
(* The string helpers of the webhook: cleanSubject and extractSenderEmail. *)
(* A string is a sequence of characters; a value that may be missing       *)
(* (undefined) is a record [present, s].  The regular expressions are      *)
(* computed on the characters, as the engine does.                         *)
(***************************************************************************)
NoText == [present |-> FALSE, s |-> <<>>]

Text(s) == [present |-> TRUE, s |-> s]

UpperCase ==
  <<"A", "B", "C", "D", "E", "F", "G", "H", "I", "J", "K", "L", "M",
    "N", "O", "P", "Q", "R", "S", "T", "U", "V", "W", "X", "Y", "Z">>

LowerCase ==
  <<"a", "b", "c", "d", "e", "f", "g", "h", "i", "j", "k", "l", "m",
    "n", "o", "p", "q", "r", "s", "t", "u", "v", "w", "x", "y", "z">>

Digits == {"0", "1", "2", "3", "4", "5", "6", "7", "8", "9"}

\* The i flag.
Lower(c) ==
  IF \E i \in 1..Len(UpperCase) : UpperCase[i] = c
  THEN LowerCase[CHOOSE i \in 1..Len(UpperCase) : UpperCase[i] = c]
  ELSE c

\* \s, and the line terminators `.` does not match.
IsSpace(c) == c \in {" ", "\t", "\n"}

IsLineTerminator(c) == c = "\n"

Drop(s, n) == SubSeq(s, n + 1, Len(s))

\* The pattern p, a literal, matches s at position i.
MatchAt(s, i, p) ==
  /\ i >= 1
  /\ i + Len(p) - 1 <= Len(s)
  /\ \A k \in 1..Len(p) : s[i + k - 1] = p[k]

\* The same under the i flag; p is written in lower case.
MatchAtCI(s, i, p) ==
  /\ i >= 1
  /\ i + Len(p) - 1 <= Len(s)
  /\ \A k \in 1..Len(p) : Lower(s[i + k - 1]) = p[k]

\* The first position from i on that \s* does not consume.
SkipSpaces(s, i) ==
  CHOOSE j \in i..(Len(s) + 1) :
    /\ \A k \in i..(j - 1) : IsSpace(s[k])
    /\ j = Len(s) + 1 \/ ~IsSpace(s[j])

\* s.replace(/^p\s*/i, '')
StripPrefix(s, p) ==
  IF MatchAtCI(s, 1, p) THEN Drop(s, SkipSpaces(s, Len(p) + 1) - 1) ELSE s

\* s.replace(/^p/i, '')
StripPrefixOnly(s, p) == IF MatchAtCI(s, 1, p) THEN Drop(s, Len(p)) ELSE s

\* The positions where /^auto.*reply:/i can end its `reply:`; .* is greedy,
\* so the last one is taken.
AutoReplyEnds(s) ==
  {j \in 5..Len(s) :
     /\ MatchAtCI(s, j, <<"r", "e", "p", "l", "y", ":">>)
     /\ \A k \in 5..(j - 1) : ~IsLineTerminator(s[k])}

\* s.replace(/^auto.*reply:\s*/i, '')
StripAutoReply(s) ==
  IF MatchAtCI(s, 1, <<"a", "u", "t", "o">>) /\ AutoReplyEnds(s) # {}
  THEN LET j == CHOOSE x \in AutoReplyEnds(s) : \A y \in AutoReplyEnds(s) : y <= x
       IN Drop(s, SkipSpaces(s, j + 6) - 1)
  ELSE s

\* s.replace(/^automatic\s+reply:\s*/i, '')
StripAutomaticReply(s) ==
  LET a == <<"a", "u", "t", "o", "m", "a", "t", "i", "c">>
      j == SkipSpaces(s, Len(a) + 1)
  IN IF /\ MatchAtCI(s, 1, a)
        /\ j > Len(a) + 1
        /\ MatchAtCI(s, j, <<"r", "e", "p", "l", "y", ":">>)
     THEN Drop(s, SkipSpaces(s, j + 6) - 1)
     ELSE s

\* The prefixesToRemove, each tried once, in the order of the array.
StripPrefixes(s) ==
  LET s1 == StripPrefix(s, <<"r", "e", ":">>)
      s2 == StripPrefix(s1, <<"f", "w", "d", ":">>)
      s3 == StripPrefix(s2, <<"f", "w", ":">>)
      s4 == StripPrefix(s3, <<"[", "s", "p", "a", "m", "]">>)
      s5 == StripPrefixOnly(s4, <<"b", "o", "u", "n", "c", "e", ":">>)
      s6 == StripAutoReply(s5)
  IN StripAutomaticReply(s6)

\* The least position of a non-empty set of positions.
Leftmost(positions) == CHOOSE i \in positions : \A j \in positions : i <= j

RECURSIVE ReplaceAll(_, _, _)
\* s.replace(/p/g, r) for a literal p: the leftmost match is replaced, and the
\* scan goes on behind it.
ReplaceAll(s, p, r) ==
  LET matches == {i \in 1..Len(s) : MatchAt(s, i, p)}
  IN IF matches = {} THEN s
     ELSE LET i == Leftmost(matches)
          IN SubSeq(s, 1, i - 1) \o r \o ReplaceAll(Drop(s, i - 1 + Len(p)), p, r)

\* String.fromCharCode(dec) for the codes of the characters used here; any
\* other code is a character outside them.
FromCharCode(digits) ==
  CASE digits = <<"3", "8">> -> "&"
    [] digits = <<"3", "2">> -> " "
    [] digits = <<"6", "0">> -> "<"
    [] OTHER -> "?"

\* The end of the digits of /&#(\d+);/ when it matches at position 1, else 0.
NumericEntityEnd(s) ==
  IF MatchAt(s, 1, <<"&", "#">>)
  THEN LET j == CHOOSE x \in 3..(Len(s) + 1) :
                  /\ \A k \in 3..(x - 1) : s[k] \in Digits
                  /\ x = Len(s) + 1 \/ s[x] \notin Digits
       IN IF j > 3 /\ j <= Len(s) /\ s[j] = ";" THEN j ELSE 0
  ELSE 0

RECURSIVE DecodeNumeric(_)
\* s.replace(/&#(\d+);/g, (match, dec) => String.fromCharCode(dec))
DecodeNumeric(s) ==
  LET matches == {i \in 1..Len(s) : NumericEntityEnd(Drop(s, i - 1)) > 0}
  IN IF matches = {} THEN s
     ELSE LET i == Leftmost(matches)
              t == Drop(s, i - 1)
              j == NumericEntityEnd(t)
          IN SubSeq(s, 1, i - 1) \o <<FromCharCode(SubSeq(t, 3, j - 1))>>
               \o DecodeNumeric(Drop(t, j))

\* The chain of entity replacements, each over the result of the one before.
DecodeEntities(s) ==
  LET s1 == ReplaceAll(s, <<"&", "q", "u", "o", "t", ";">>, <<"\"">>)
      s2 == ReplaceAll(s1, <<"&", "a", "m", "p", ";">>, <<"&">>)
      s3 == ReplaceAll(s2, <<"&", "l", "t", ";">>, <<"<">>)
      s4 == ReplaceAll(s3, <<"&", "g", "t", ";">>, <<">">>)
  IN DecodeNumeric(s4)

RECURSIVE CollapseSpaces(_)
\* s.replace(/\s+/g, ' ')
CollapseSpaces(s) ==
  LET matches == {i \in 1..Len(s) : IsSpace(s[i])}
  IN IF matches = {} THEN s
     ELSE LET i == Leftmost(matches)
          IN SubSeq(s, 1, i - 1) \o <<" ">> \o CollapseSpaces(Drop(s, SkipSpaces(s, i) - 1))

\* s.trim()
Trim(s) ==
  LET first == SkipSpaces(s, 1)
      last == IF first > Len(s) THEN 0
              ELSE CHOOSE j \in first..Len(s) :
                     ~IsSpace(s[j]) /\ \A k \in (j + 1)..Len(s) : IsSpace(s[k])
  IN SubSeq(s, first, last)

MaxSubjectLength == 100

KeptOnTruncation == 97

Ellipsis == <<".", ".", ".">>

NoSubject == <<"N", "o", " ", "S", "u", "b", "j", "e", "c", "t">>

\* A subject left at its length.
Truncate_Never(s) == s

\* if (cleanedSubject.length > 100) cleanedSubject = substring(0, 97) + '...'
Truncate(s) ==
  IF Len(s) > MaxSubjectLength
  THEN SubSeq(s, 1, KeptOnTruncation) \o Ellipsis
  ELSE s

\* cleanSubject(subject); !subject holds of undefined and of ''.
cleanSubject(subject) ==
  IF ~subject.present \/ subject.s = <<>> THEN NoSubject
  ELSE LET cleaned == Truncate(Trim(CollapseSpaces(DecodeEntities(StripPrefixes(subject.s)))))
       IN IF cleaned = <<>> THEN NoSubject ELSE cleaned

(***************************************************************************)
(* extractSenderEmail.                                                     *)
(***************************************************************************)
\* [a-zA-Z0-9._-]
IsAddressChar(c) ==
  \/ c \in Digits \/ c \in {".", "_", "-"}
  \/ \E i \in 1..Len(LowerCase) : LowerCase[i] = c \/ UpperCase[i] = c

NoMatch == [found |-> FALSE, s |-> <<>>]

Match(s) == [found |-> TRUE, s |-> s]

\* The pairs <<i, j>> at which /<(.+?)>/ can match: '<' at i, '>' at j, at
\* least one character between them and no line terminator.
AngleSpans(s) ==
  {<<i, j>> \in (1..Len(s)) \X (1..Len(s)) :
     /\ s[i] = "<" /\ s[j] = ">" /\ j > i + 1
     /\ \A k \in (i + 1)..(j - 1) : ~IsLineTerminator(s[k])}

\* emailFrom.match(/<(.+?)>/): the leftmost '<', and lazily the nearest '>'.
AngleEmailMatch(s) ==
  IF AngleSpans(s) = {} THEN NoMatch
  ELSE LET i == CHOOSE x \in {sp[1] : sp \in AngleSpans(s)} :
                  \A y \in {sp[1] : sp \in AngleSpans(s)} : x <= y
           j == CHOOSE x \in {sp[2] : sp \in {t \in AngleSpans(s) : t[1] = i}} :
                  \A y \in {sp[2] : sp \in {t \in AngleSpans(s) : t[1] = i}} : x <= y
       IN Match(SubSeq(s, i + 1, j - 1))

\* The end of the longest run of characters satisfying the test from i on
\* (i - 1 when there is none).
AddressRunEnd(s, i) ==
  CHOOSE e \in (i - 1)..Len(s) :
    /\ \A k \in i..e : IsAddressChar(s[k])
    /\ e = Len(s) \/ ~IsAddressChar(s[e + 1])

\* The spans <<i, e>> that /([a-zA-Z0-9._-]+@[a-zA-Z0-9._-]+\.[a-zA-Z0-9._-]+)/
\* matches when started at i: the run before '@', and behind it a run with
\* a '.' that is neither its first nor its last character; the groups are
\* greedy, so the match runs to the end of that run.
SimpleEmailSpans(s) ==
  {<<i, e>> \in (1..Len(s)) \X (1..Len(s)) :
     LET k == AddressRunEnd(s, i)
     IN /\ k >= i
        /\ k + 1 <= Len(s) /\ s[k + 1] = "@"
        /\ e = AddressRunEnd(s, k + 2)
        /\ \E q \in (k + 3)..(e - 1) : s[q] = "."}

\* emailFrom.match(...): the leftmost match.
SimpleEmailMatch(s) ==
  IF SimpleEmailSpans(s) = {} THEN NoMatch
  ELSE LET sp == CHOOSE x \in SimpleEmailSpans(s) :
                   \A y \in SimpleEmailSpans(s) : x[1] <= y[1]
       IN Match(SubSeq(s, sp[1], sp[2]))

\* emailFrom.includes(marker)
Includes(s, marker) == \E i \in 1..Len(s) : MatchAt(s, i, marker)

Bounce == <<"b", "o", "u", "n", "c", "e">>

MailerDaemon == <<"m", "a", "i", "l", "e", "r", "-", "d", "a", "e", "m", "o", "n">>

OriginalSenderLabel ==
  <<"o", "r", "i", "g", "i", "n", "a", "l", "-", "s", "e", "n", "d", "e", "r", ":">>

Sentinel ==
  <<"s", "y", "s", "t", "e", "m", "@", "b", "o", "u", "n", "c", "e", "d", ".", "m", "a", "i", "l">>

\* The end of the run of non-whitespace characters from i on.
WordEnd(s, i) ==
  CHOOSE e \in (i - 1)..Len(s) :
    /\ \A k \in i..e : ~IsSpace(s[k])
    /\ e = Len(s) \/ IsSpace(s[e + 1])

\* The spans /original-sender:\s*([^\s]+@[^\s]+)/i captures: behind the label
\* and any whitespace, a word with an '@' that is neither its first nor its
\* last character.
OriginalSenderSpans(s) ==
  {<<i, a, e>> \in (1..Len(s)) \X (1..Len(s)) \X (1..Len(s)) :
     /\ MatchAtCI(s, i, OriginalSenderLabel)
     /\ a = SkipSpaces(s, i + Len(OriginalSenderLabel))
     /\ e = WordEnd(s, a)
     /\ \E q \in (a + 1)..(e - 1) : s[q] = "@"}

OriginalSenderMatch(s) ==
  IF OriginalSenderSpans(s) = {} THEN NoMatch
  ELSE LET sp == CHOOSE x \in OriginalSenderSpans(s) :
                   \A y \in OriginalSenderSpans(s) : x[1] <= y[1]
       IN Match(SubSeq(s, sp[2], sp[3]))

\* extractSenderEmail(emailFrom); !emailFrom holds of undefined and of ''.
extractSenderEmail(emailFrom) ==
  IF ~emailFrom.present \/ emailFrom.s = <<>> THEN <<>>
  ELSE IF AngleEmailMatch(emailFrom.s).found THEN AngleEmailMatch(emailFrom.s).s
  ELSE IF SimpleEmailMatch(emailFrom.s).found THEN SimpleEmailMatch(emailFrom.s).s
  ELSE IF Includes(emailFrom.s, Bounce) \/ Includes(emailFrom.s, MailerDaemon)
       THEN IF OriginalSenderMatch(emailFrom.s).found
            THEN OriginalSenderMatch(emailFrom.s).s ELSE Sentinel
  ELSE emailFrom.s

TextIdle == tin = NoText /\ tout = <<>>

VerifierIdle == vdns = DnsGood /\ vout = NoResult /\ aout = NoResult /\ TextIdle

DomainIdle ==
  InitUserDomains /\ InitDomainRest /\ dns = [d \in Domains |-> DnsGood]

(***************************************************************************)
(* The subjects handed to cleanSubject: a missing one, and every           *)
(* concatenation of at most MaxFragments of the fragments below.           *)
(***************************************************************************)
MaxFragments == 3

LongWord == [i \in 1..60 |-> "y"]

SubjectFragments ==
  {<<"R", "e", ":", " ">>, <<"F", "w", "d", ":", " ">>, <<"[", "S", "P", "A", "M", "]">>,
   <<"x">>, <<" ">>, <<"\t">>,
   <<"&", "a", "m", "p", ";">>, <<"a", "m", "p", ";">>, <<"&", "#", "3", "8", ";">>,
   <<"A", "u", "t", "o">>, <<"r", "e", "p", "l", "y", ":">>, LongWord}

RECURSIVE Concatenations(_, _)
Concatenations(fragments, n) ==
  IF n = 0 THEN {<<>>}
  ELSE LET shorter == Concatenations(fragments, n - 1)
       IN shorter \cup {f \o t : f \in fragments, t \in shorter}

SubjectInputs == {NoText} \cup {Text(s) : s \in Concatenations(SubjectFragments, MaxFragments)}

\* The applications of a helper that are followed: the call, and the call on
\* its own result.
Applications == 2

InitSubject ==
  /\ tin \in SubjectInputs
  /\ tout = <<>>
  /\ vdns = DnsGood /\ vout = NoResult /\ aout = NoResult
  /\ DomainIdle /\ IngestIdle /\ OpsIdle

\* cleanSubject(parsedEmail.subject), then cleanSubject of what it returned.
RunCleanSubject ==
  /\ Len(tout) < Applications
  /\ tout' = Append(tout, cleanSubject(IF tout = <<>> THEN tin ELSE Text(tout[Len(tout)])))
  /\ UNCHANGED <<vdns, vout, aout, tin, domainVars, ingestVars, opVars>>

NextSubject == RunCleanSubject

(***************************************************************************)
(* The sender strings handed to extractSenderEmail: a missing one, and     *)
(* every concatenation of at most MaxFragments of the fragments below.     *)
(***************************************************************************)
SenderFragments ==
  {<<"<", "N", ">">>, <<"<", "a", "@", "b", ".", "c", ">">>, <<" ">>, <<"N">>,
   <<"a", "@", "b", ".", "c">>, <<"@", "h", ".", "i", "o">>, <<"u", "@", "v">>,
   Bounce, MailerDaemon, OriginalSenderLabel}

SenderInputs == {NoText} \cup {Text(s) : s \in Concatenations(SenderFragments, MaxFragments)}

InitSender ==
  /\ tin \in SenderInputs
  /\ tout = <<>>
  /\ vdns = DnsGood /\ vout = NoResult /\ aout = NoResult
  /\ DomainIdle /\ IngestIdle /\ OpsIdle

\* extractSenderEmail(req.body.sender || parsedEmail.from)
RunExtractSenderEmail ==
  /\ tout = <<>>
  /\ tout' = <<extractSenderEmail(tin)>>
  /\ UNCHANGED <<vdns, vout, aout, tin, domainVars, ingestVars, opVars>>

NextSender == RunExtractSenderEmail

InitVerifier ==
  /\ vdns \in DnsStates /\ vout = NoResult /\ aout = NoResult
  /\ TextIdle
  /\ DomainIdle /\ IngestIdle /\ OpsIdle

RunVerifyDNSSettings ==
  /\ vout = NoResult
  /\ vout' = verifyDNSSettings(vdns)
  /\ UNCHANGED <<vdns, aout, tin, tout, domainVars, ingestVars, opVars>>

RunVerifyAll ==
  /\ aout = NoResult
  /\ aout' = verifyAll(vdns)
  /\ UNCHANGED <<vdns, vout, tin, tout, domainVars, ingestVars, opVars>>

NextVerifier == RunVerifyDNSSettings \/ RunVerifyAll

vars == <<verifierVars, domainVars, ingestVars, opVars>>

SpecVerifier == InitVerifier /\ [][NextVerifier]_vars

SpecSubject == InitSubject /\ [][NextSubject]_vars

SpecSender == InitSender /\ [][NextSender]_vars

InitDomainSpec == InitDomain /\ VerifierIdle /\ IngestIdle /\ OpsIdle

SpecDomain == InitDomainSpec /\ [][NextDomain]_vars

Init == InitIngest /\ VerifierIdle /\ OpsIdle

Spec == Init /\ [][Next]_vars

InitRedelivery ==
  /\ InitMailboxes /\ InitIngestDomains
  /\ now = 0 /\ db = {} /\ sent = {}
  /\ req = [r \in Deliveries |-> ReqIdle]
  /\ VerifierIdle /\ OpsIdle

SpecRedelivery == InitRedelivery /\ [][NextRedelivery]_vars

\* The requests and the sweep are served to their end; the environment and
\* the arrival of requests are not obliged to anything.
FairRace ==
  /\ WF_vars(\E ok \in BOOLEAN : VerifyByIdBegin(ok))
  /\ WF_vars(\E ok \in BOOLEAN : VerifyByIdUpdateVerifications(ok))
  /\ WF_vars(\E ok \in BOOLEAN : VerifyByIdUpdateDomain(ok))
  /\ WF_vars(\E ok \in BOOLEAN : VerifyByIdCommit(ok))
  /\ WF_vars(VerifyByIdRollback)
  /\ WF_vars(\E ok \in BOOLEAN : PremiumVerifyWrite(ok))
  /\ WF_vars(\E ok \in BOOLEAN : MonitorSelect(ok))
  /\ WF_vars(\E d \in Domains : MonitorVerify(d))
  /\ WF_vars(\E ok \in BOOLEAN : MonitorMarkInactive(ok))
  /\ WF_vars(\E ok \in BOOLEAN : MonitorLogIssue(ok))
  /\ WF_vars(\E ok \in BOOLEAN : MonitorReactivate(ok))
  /\ WF_vars(MonitorRelease)

InitRace == DomainIdle /\ VerifierIdle /\ IngestIdle /\ OpsIdle

SpecRace == InitRace /\ [][NextRace]_vars /\ FairRace

\* No mailbox yet; d1 verified in both domain tables, as the verification
\* routes leave it.
InitCreate ==
  /\ premium_emails = <<>>
  /\ temp_emails = <<>>
  /\ email_forwards = [a \in Recipients |-> NULL]
  /\ InitIngestStore
  /\ user_domains =
       [d \in Domains |->
          [user_id |-> OwnerOf(d), is_verified |-> IF d = "d1" THEN 1 ELSE 0,
           status |-> IF d = "d1" THEN "active" ELSE "trial"]]
  /\ domain_verifications =
       [d \in Domains |-> [t \in VerificationTypes |-> IF d = "d1" THEN 1 ELSE 0]]
  /\ domain_forwards = [d \in Domains |-> NULL]
  /\ domain_issues = [d \in Domains |-> 0]
  /\ custom_domains =
       [d \in CustomDomains |->
          [user_id |-> OwnerOf(d), status |-> "verified", dns_check_results |-> NoResult]]
  /\ mon = MonIdle
  /\ sweeps = 0
  /\ pv = PvIdle
  /\ evidence = [d \in Domains |-> NoResult]
  /\ mlast = NoLog
  /\ dns = [d \in Domains |-> DnsGood]
  /\ VerifierIdle
  /\ OpsIdle

SpecCreate == InitCreate /\ [][NextCreate]_vars

\* No custom domain yet.
InitAddDomain ==
  /\ user_domains = <<>>
  /\ domain_verifications = <<>>
  /\ InitDomainRest
  /\ dns = [d \in Domains |-> DnsGood]
  /\ VerifierIdle
  /\ IngestIdle
  /\ OpsIdle

SpecAddDomain == InitAddDomain /\ [][NextAddDomain]_vars

\* The mailboxes of the ingestion fixture, with received e-mails in two of
\* them.
InitDelete ==
  /\ InitMailboxes
  /\ now = 0
  /\ db = {ReceivedRow("t1", 1), ReceivedRow("t1", 2), ReceivedRow("t2", 3)}
  /\ sent = {}
  /\ req = [r \in Reqs |-> ReqIdle]
  /\ DomainIdle
  /\ VerifierIdle
  /\ OpsIdle

SpecDelete == InitDelete /\ [][NextDelete]_vars

(***************************************************************************)
(* The sweep on its own: the timer of startMonitoring starts sweeps over   *)
(* domains in any state the verification routes and earlier sweeps can     *)
(* leave them in, while DNS changes.  A started sweep keeps running: each  *)
(* of its awaited steps settles.                                           *)
(***************************************************************************)
SweepDnsSamples == {DnsGood, DnsMxTimeout}

SweepRows ==
  {[user_id |-> NULL, is_verified |-> 0, status |-> "trial"],
   [user_id |-> NULL, is_verified |-> 1, status |-> "active"],
   [user_id |-> NULL, is_verified |-> 1, status |-> "inactive"]}

InitSweep ==
  /\ user_domains \in
       {ud \in [Domains -> {[r EXCEPT !.user_id = u] : r \in SweepRows, u \in Users}] :
          \A d \in Domains : ud[d].user_id = OwnerOf(d)}
  /\ domain_verifications =
       [d \in Domains |-> [t \in VerificationTypes |-> user_domains[d].is_verified]]
  /\ InitDomainRest
  /\ dns = [d \in Domains |-> DnsGood]
  /\ VerifierIdle
  /\ IngestIdle
  /\ OpsIdle

NextSweep ==
  \/ \E d \in Domains, s \in SweepDnsSamples : EnvDnsChange(d, s)
  \/ \E ok \in BOOLEAN : MonitorGetConnection(ok)
  \/ \E ok \in BOOLEAN : MonitorSelect(ok)
  \/ \E d \in Domains : MonitorVerify(d)
  \/ \E ok \in BOOLEAN : MonitorMarkInactive(ok)
  \/ \E ok \in BOOLEAN : MonitorLogIssue(ok)
  \/ \E ok \in BOOLEAN : MonitorReactivate(ok)
  \/ MonitorRelease

FairSweep ==
  /\ WF_vars(\E ok \in BOOLEAN : MonitorSelect(ok))
  /\ WF_vars(\E d \in Domains : MonitorVerify(d))
  /\ WF_vars(\E ok \in BOOLEAN : MonitorMarkInactive(ok))
  /\ WF_vars(\E ok \in BOOLEAN : MonitorLogIssue(ok))
  /\ WF_vars(\E ok \in BOOLEAN : MonitorReactivate(ok))
  /\ WF_vars(MonitorRelease)

SpecSweep == InitSweep /\ [][NextSweep]_vars /\ FairSweep

(***************************************************************************)
(* C8: the aggregate is true exactly when every check of the returned map  *)
(* is true, for verifyDNSSettings (isValid) and for verifyAll (success).   *)
(***************************************************************************)
C8_AggregateIsAnd ==
  /\ vout # NoResult =>
       (vout.isValid <=> \A k \in DOMAIN vout.checks : vout.checks[k])
  /\ aout # NoResult =>
       (aout.success <=> \A k \in DOMAIN aout.results : aout.results[k])

\* MX and SPF pass and CNAME fails: the aggregate has been computed from a
\* mixed map.
C8_Witness ==
  /\ vout # NoResult /\ aout # NoResult
  /\ vout.checks.mx /\ vout.checks.spf /\ ~vout.checks.cname

(***************************************************************************)
(* C9 as claimed: no verifier throws, and every check reports the result   *)
(* of its own lookup whatever the other lookups do.                        *)
(***************************************************************************)
C9_FailedLookupFailsOnlyItsCheck ==
  /\ vout # NoResult =>
       /\ ~vout.threw
       /\ vout.checks.mx = OwnMx(vdns)
       /\ vout.checks.spf = OwnSpf(vdns)
       /\ vout.checks.cname = OwnCname(vdns)
  /\ aout # NoResult =>
       /\ ~aout.threw
       /\ aout.results.mx = (~Rejected(vdns.mx) /\ "self10" \in vdns.mx.recs)
       /\ aout.results.spf =
            (~Rejected(vdns.txt) /\ vdns.txt.recs \cap {"spf_incl", "spf_plain"} # {})
       /\ aout.results.dkim = (~Rejected(vdns.dkim) /\ "dkim1" \in vdns.dkim.recs)

(***************************************************************************)
(* Observations about one ingestion.                                       *)
(***************************************************************************)
Done(r) == req[r].pc = "done"

MessageRows(r) ==
  {row \in db : row.req = r /\ row.table \in EmailTables \cup AttachmentTables}

Stored(r) == \E row \in db : row.req = r /\ row.table \in EmailTables

MailsOf(r) == {m \in sent : m.req = r}

\* The success acknowledgement: the 200 response of the webhook, the
\* fulfilled promise of handleIncomingEmail.
Acknowledged(r) ==
  IF req[r].handler = "webhook" THEN req[r].resp = <<200>>
  ELSE req[r].out = "returned"

\* No premium and no temporary mailbox with this address has its expiration
\* after t.
NoActiveMailbox(a, t) ==
  /\ \A id \in DOMAIN premium_emails :
       premium_emails[id].email = a => premium_emails[id].expires_at <= t
  /\ \A id \in DOMAIN temp_emails :
       temp_emails[id].email = a => temp_emails[id].expires_at <= t

(***************************************************************************)
(* C1: when the insertion of the N-th attachment of a message fails, no    *)
(* email row and no attachment row of that message is visible once the     *)
(* request has ended, in the webhook's premium and temporary branches and  *)
(* in EmailRouter.storeEmail.                                              *)
(***************************************************************************)
C1_PersistenceAtomicity ==
  \A r \in Reqs : (Done(r) /\ req[r].attFailed # 0) => MessageRows(r) = {}

\* The second of two attachments failed after the email row and the first
\* attachment had been staged, and the request has ended.
C1_Witness ==
  \E r \in Reqs :
    Done(r) /\ req[r].natt = 2 /\ req[r].attFailed = 2 /\ req[r].rb = "ok"

(***************************************************************************)
(* C2 as claimed: an outbound forward is sent only after the storage       *)
(* transaction has committed: never while the transaction is open, never   *)
(* before the message is stored.                                           *)
(***************************************************************************)
C2_ForwardOnlyAfterCommit ==
  \A m \in sent : ~m.inTx /\ m.stored

(***************************************************************************)
(* C3 as claimed: when the outbound send fails and nothing else does, the  *)
(* message is stored and the ingestion ends with the success               *)
(* acknowledgement.                                                        *)
(***************************************************************************)
C3_ForwardFailureStillStored ==
  \A r \in Reqs :
    (Done(r) /\ req[r].fwd = "failed" /\ req[r].err \in {"none", "forward"})
      => (Stored(r) /\ Acknowledged(r))

(***************************************************************************)
(* C4 as claimed: a notification whose recipient has no active premium     *)
(* and no active temporary mailbox ends with 404 and produces no row and   *)
(* no forward.                                                             *)
(***************************************************************************)
C4_NoRouteIs404 ==
  \A r \in Reqs :
    (req[r].handler = "webhook" /\ Done(r)
       /\ NoActiveMailbox(req[r].rcpt, req[r].t0))
      => (req[r].resp = <<404>> /\ MessageRows(r) = {} /\ MailsOf(r) = {})

(***************************************************************************)
(* C4, amended: such a notification never produces a row or a forward; it  *)
(* ends with exactly one response, 404 when parsing and both lookups       *)
(* completed and 500 when one of them failed.                              *)
(***************************************************************************)
C4_NoRouteNoWrite ==
  \A r \in Reqs :
    (req[r].handler = "webhook" /\ NoActiveMailbox(req[r].rcpt, req[r].t0))
      => /\ MessageRows(r) = {} /\ MailsOf(r) = {}
         /\ Done(r) => req[r].resp = IF req[r].err = "none" THEN <<404>> ELSE <<500>>

\* The webhook answered 404 for a recipient whose only mailbox has expired.
C4_Witness ==
  \E r \in Reqs :
    /\ req[r].handler = "webhook" /\ Done(r) /\ req[r].resp = <<404>>
    /\ AnyTemp(req[r].rcpt) # {} /\ NoActiveMailbox(req[r].rcpt, req[r].t0)

(***************************************************************************)
(* C5 as claimed: no message is stored for, or forwarded on behalf of, a   *)
(* mailbox whose expiration is not in the future when the message arrives. *)
(***************************************************************************)
C5_NoMailForExpired ==
  /\ \A row \in db :
       (row.table \in EmailTables /\ row.mailbox # NULL)
         => ExpiresAt(row.mailbox) > row.arrived
  /\ \A m \in sent : m.mailbox # NULL => ExpiresAt(m.mailbox) > m.arrived

(***************************************************************************)
(* C6 as claimed: the Resolver returns a custom route only for a domain    *)
(* that is verified and that the Domain Monitor has not set inactive.      *)
(***************************************************************************)
C6_OnlyVerifiedDomainsRoute ==
  \A a \in Recipients :
    getRoutingInfo(a).type = "custom"
      => /\ user_domains[DomainOf(a)].is_verified = 1
         /\ user_domains[DomainOf(a)].status # "inactive"

(***************************************************************************)
(* C7 as claimed: a domain is marked verified (is_verified = 1 in          *)
(* user_domains, status 'verified' in custom_domains) only by a call in    *)
(* which every required DNS check was evaluated and was true.              *)
(***************************************************************************)
C7_VerifiedOnlyOnFullPass ==
  /\ \A d \in Domains :
       user_domains[d].is_verified = 1
         => /\ evidence[d] # NoResult
            /\ \A k \in DOMAIN evidence[d] : evidence[d][k]
  /\ \A d \in CustomDomains :
       custom_domains[d].status = "verified"
         => /\ custom_domains[d].dns_check_results # NoResult
            /\ \A k \in DOMAIN custom_domains[d].dns_check_results :
                 custom_domains[d].dns_check_results[k]

(***************************************************************************)
(* The sweep has finished with the domain of its last record.              *)
(***************************************************************************)
Handled == mlast # NoLog /\ mon.pc \in {"loop", "idle"}

(***************************************************************************)
(* C10 as claimed: once a sweep has handled a verified domain, a failed     *)
(* re-verification has left it inactive with one more issue record, a      *)
(* successful one has returned an inactive domain to active, and a         *)
(* successful one on a domain that was not inactive has changed nothing.   *)
(***************************************************************************)
C10_MonitorTransitions ==
  Handled =>
    /\ ~mlast.verdict
         => /\ user_domains[mlast.d].status = "inactive"
            /\ domain_issues[mlast.d] = mlast.issuesBefore + 1
    /\ (mlast.verdict /\ mlast.was = "inactive")
         => user_domains[mlast.d].status = "active"
    /\ (mlast.verdict /\ mlast.was # "inactive")
         => /\ user_domains[mlast.d].status = mlast.before
            /\ domain_issues[mlast.d] = mlast.issuesBefore

(***************************************************************************)
(* C10, amended: the same transitions, for the domains whose UPDATE and     *)
(* INSERT the store accepted; a rejected statement is caught and logged    *)
(* and leaves what it would have written as it was.                        *)
(***************************************************************************)
C10_MonitorTransitionsWhenWritesSucceed ==
  Handled =>
    /\ (~mlast.verdict /\ mlast.upd = "ok")
         => user_domains[mlast.d].status = "inactive"
    /\ (~mlast.verdict /\ mlast.upd = "ok" /\ mlast.ins = "ok")
         => domain_issues[mlast.d] = mlast.issuesBefore + 1
    /\ (~mlast.verdict /\ mlast.upd = "failed")
         => /\ user_domains[mlast.d].status = mlast.before
            /\ domain_issues[mlast.d] = mlast.issuesBefore
    /\ (mlast.verdict /\ mlast.was = "inactive" /\ mlast.upd = "ok")
         => user_domains[mlast.d].status = "active"
    /\ (mlast.verdict /\ mlast.was # "inactive")
         => /\ user_domains[mlast.d].status = mlast.before
            /\ domain_issues[mlast.d] = mlast.issuesBefore

\* A sweep has reactivated a domain that an earlier sweep had set inactive
\* and logged an issue for.
C10_Witness ==
  /\ Handled /\ mlast.verdict /\ mlast.was = "inactive" /\ mlast.upd = "ok"
  /\ domain_issues[mlast.d] > 0

(***************************************************************************)
(* What the two writers of a user_domains row leave: the sweep writes the  *)
(* status column, POST /verify/:id the is_verified column together with    *)
(* the domain's verification records.                                      *)
(***************************************************************************)
StatusIsLastWritten ==
  (Handled /\ mlast.upd = "ok")
    => user_domains[mlast.d].status = IF mlast.verdict THEN "active" ELSE "inactive"

VerifiedIsLastWritten ==
  \A d \in Domains :
    user_domains[d].is_verified = 1
      <=> \A t \in VerificationTypes : domain_verifications[d][t] = 1

WritesWithoutRetry(q) ==
  CASE q.err = "email" -> 1
    [] q.err = "attachment" -> 1 + q.attFailed
    [] q.err = "commit" -> 1 + q.natt + (IF q.fwd = "sent" /\ q.handler = "webhook"
                                         THEN 1 ELSE 0) + 1

(***************************************************************************)
(* C12: when the email insert, an attachment insert or the commit of the   *)
(* storage transaction fails, the request ends with the 500 response (the  *)
(* rejection, for handleIncomingEmail), the transaction is rolled back and *)
(* none of its rows is visible, and the failed write was executed once.    *)
(***************************************************************************)
C12_PersistenceFailureIsTerminal ==
  \A r \in Reqs :
    (Done(r) /\ req[r].err \in {"email", "attachment", "commit"})
      => /\ IF req[r].handler = "webhook" THEN req[r].resp = <<500>>
            ELSE req[r].out = "threw"
         /\ req[r].rb # "none"
         /\ {row \in db : row.req = r} = {}
         /\ req[r].writes = WritesWithoutRetry(req[r])

\* The webhook answered 500 after the commit of an email with two
\* attachments failed.
C12_Witness ==
  \E r \in Reqs :
    /\ Done(r) /\ req[r].handler = "webhook" /\ req[r].err = "commit"
    /\ req[r].natt = 2 /\ req[r].resp = <<500>>

(***************************************************************************)
(* The deliveries answered 200 and the email rows in the store.            *)
(***************************************************************************)
AcknowledgedDeliveries ==
  {r \in DOMAIN req : req[r].pc = "done" /\ req[r].resp = <<200>>}

StoredEmailRows == {row \in db : row.table \in EmailTables}

(***************************************************************************)
(* C13: of k deliveries of one notification, served one after the other or *)
(* interleaved, every acknowledged one has left an email row of its own:   *)
(* as many email rows as acknowledged deliveries, with as many distinct    *)
(* message identifiers; none is dropped, none is merged with another.      *)
(***************************************************************************)
C13_RedeliveryDuplicates ==
  /\ Cardinality(StoredEmailRows) = Cardinality(AcknowledgedDeliveries)
  /\ Cardinality({row.email_id : row \in StoredEmailRows})
       = Cardinality(AcknowledgedDeliveries)
  /\ \A r \in AcknowledgedDeliveries : \E row \in StoredEmailRows : row.req = r

\* Two deliveries of the same notification have both been acknowledged.
C13_Witness ==
  \E r1, r2 \in AcknowledgedDeliveries :
    r1 # r2 /\ req[r1].rcpt = req[r2].rcpt /\ req[r1].natt = req[r2].natt

(***************************************************************************)
(* The premium mailboxes and the temporary mailboxes an address matches    *)
(* at time t.                                                              *)
(***************************************************************************)
PremiumMatches(a, t) ==
  {id \in DOMAIN premium_emails :
     premium_emails[id].email = a /\ premium_emails[id].expires_at > t}

TempMatches(a) == {id \in DOMAIN temp_emails : temp_emails[id].email = a}

\* The message of request r has gone the premium route: every row stored for
\* it is a row of the premium tables against the premium mailbox, and once
\* acknowledged it has exactly one email row.
StoredOnPremiumRoute(r) ==
  /\ req[r].branch \in {"none", "premium"}
  /\ \A row \in db :
       row.req = r
         => /\ row.mailbox \in PremiumMatches(req[r].rcpt, now)
            /\ row.table \in {"premium_received_emails",
                              "premium_email_attachments", "premium_analytics"}
  /\ (Done(r) /\ Acknowledged(r))
       => Cardinality({row \in db : row.req = r /\ row.table \in EmailTables}) = 1

MatchesPremiumAndTemp(r) ==
  PremiumMatches(req[r].rcpt, now) # {} /\ TempMatches(req[r].rcpt) # {}

\* POST /email/incoming looks the premium mailboxes up first and the
\* temporary ones only in the else branch.
WebhookRoutingPrecedence ==
  \A r \in Reqs :
    (req[r].handler = "webhook" /\ MatchesPremiumAndTemp(r)) => StoredOnPremiumRoute(r)

(***************************************************************************)
(* C14 as claimed: whatever path ingests it, a message whose recipient     *)
(* matches an active premium mailbox and also a temporary mailbox record   *)
(* is stored exactly once, against the premium mailbox, and never against  *)
(* the temporary record.                                                   *)
(***************************************************************************)
C14_RoutingPrecedence ==
  \A r \in Reqs : MatchesPremiumAndTemp(r) => StoredOnPremiumRoute(r)

(***************************************************************************)
(* C15 as claimed: a notification whose body cannot be parsed does not     *)
(* fail: the request goes on to routing and ends with the answer routing   *)
(* and storage give it, never with an error response for the parse         *)
(* failure.                                                                *)
(***************************************************************************)
C15_ParseFailuresAbsorbed ==
  \A r \in Reqs :
    (req[r].handler = "webhook" /\ Done(r) /\ req[r].err = "parse")
      => (req[r].branch # "none" /\ req[r].resp \in {<<200>>, <<404>>})

(***************************************************************************)
(* C16 as claimed: a notification in an unsupported encoding is answered   *)
(* with the 400 response, and nothing is stored or forwarded for it.       *)
(***************************************************************************)
C16_UnsupportedEncodingRejected ==
  \A r \in Reqs :
    (req[r].handler = "webhook" /\ Done(r) /\ req[r].enc = "other")
      => (req[r].resp = <<400>> /\ {row \in db : row.req = r} = {} /\ MailsOf(r) = {})

(***************************************************************************)
(* C17 as claimed: on every exit path of the storage unit of work the      *)
(* connection acquired for it is released: a completed ingestion request   *)
(* holds no connection.                                                    *)
(***************************************************************************)
C17_GuaranteedRelease ==
  \A r \in Reqs : Done(r) => req[r].conns = 0

(***************************************************************************)
(* C18 as claimed: after any sequence of mailbox creations (authenticated, *)
(* public, premium, upgrade), interleaved in any way, no two active        *)
(* (non-expired) mailboxes have the same address.                          *)
(***************************************************************************)
ActiveMailboxes ==
  {<<"temp", id>> : id \in {k \in DOMAIN temp_emails : temp_emails[k].expires_at > now}}
    \cup {<<"premium", id>> :
            id \in {k \in DOMAIN premium_emails : premium_emails[k].expires_at > now}}

AddressOfMailbox(m) ==
  IF m[1] = "temp" THEN temp_emails[m[2]].email ELSE premium_emails[m[2]].email

C18_AddressUniqueness ==
  \A m1, m2 \in ActiveMailboxes :
    AddressOfMailbox(m1) = AddressOfMailbox(m2) => m1 = m2

(***************************************************************************)
(* C19 as claimed: every forwarded copy, whichever ingestion path sent it, *)
(* carries the original sender in a header of its own (X-Original-From)    *)
(* and has its reply-to set to the original sender.                        *)
(***************************************************************************)
C19_ForwardPreservesSender ==
  \A m \in sent : m.xOriginalFrom /\ m.replyTo

(***************************************************************************)
(* C20: adding a custom domain is one unit of work.  At every moment a     *)
(* domain has either its row in user_domains and all three verification    *)
(* records (MX, TXT, DKIM), or none of them; and once a request that       *)
(* failed at the insert of a verification record has finished, neither a   *)
(* domain row nor a verification record of that domain is visible.         *)
(***************************************************************************)
C20_DomainCreationIsOneUnit ==
  \A d \in Domains :
    /\ d \in DOMAIN user_domains <=> d \in DOMAIN domain_verifications
    /\ d \in DOMAIN domain_verifications
         => DOMAIN domain_verifications[d] = VerificationTypes
    /\ (ad[d].pc = "done" /\ ad[d].err = "verification")
         => (d \notin DOMAIN user_domains /\ d \notin DOMAIN domain_verifications)

\* A request failed at a verification insert and has finished, while the
\* request for another domain went through.
C20_Witness ==
  \E d, e \in Domains :
    /\ ad[d].pc = "done" /\ ad[d].err = "verification" /\ ad[d].resp = 500
    /\ d \notin DOMAIN user_domains
    /\ ad[e].pc = "done" /\ ad[e].resp = 200
    /\ e \in DOMAIN user_domains /\ DOMAIN domain_verifications[e] = VerificationTypes

(***************************************************************************)
(* C21 as claimed: cleaning a subject is idempotent: cleaning what         *)
(* cleanSubject returned gives the same string again.                      *)
(***************************************************************************)
C21_CleanSubjectIdempotent ==
  Len(tout) = Applications => tout[2] = tout[1]

(***************************************************************************)
(* C22: for every subject, the missing, the empty, the whitespace-only and *)
(* the prefix-only ones included, cleanSubject returns a string that is    *)
(* not empty and has at most 100 characters, the ellipsis included.        *)
(***************************************************************************)
C22_CleanSubjectBoundedNonEmpty ==
  \A i \in 1..Len(tout) : tout[i] # <<>> /\ Len(tout[i]) <= MaxSubjectLength

\* A subject longer than the limit was cut to exactly 100 characters ending
\* in the ellipsis.
C22_Witness ==
  /\ tin.present /\ Len(tin.s) > MaxSubjectLength
  /\ Len(tout) >= 1
  /\ Len(tout[1]) = MaxSubjectLength
  /\ SubSeq(tout[1], KeptOnTruncation + 1, MaxSubjectLength) = Ellipsis

(***************************************************************************)
(* C23 as claimed: for every sender string that contains a bounce or       *)
(* mailer-daemon marker and no original-sender token, the string shaped    *)
(* like an address included, extractSenderEmail returns the sentinel       *)
(* system@bounced.mail.                                                    *)
(***************************************************************************)
HasMarker(s) == Includes(s, Bounce) \/ Includes(s, MailerDaemon)

C23_BounceSentinel ==
  (tout # <<>> /\ tin.present /\ HasMarker(tin.s) /\ ~OriginalSenderMatch(tin.s).found)
    => tout[1] = Sentinel

(***************************************************************************)
(* C24 as claimed: extractSenderEmail returns (1) the address inside angle *)
(* brackets whenever the string contains one, whatever text surrounds it;  *)
(* otherwise (2) the first bare address; otherwise (3) for a bounce or     *)
(* mailer-daemon string the original-sender token, or else the sentinel;   *)
(* otherwise (4) the string unchanged.                                     *)
(***************************************************************************)
\* t is an address and nothing else.
IsAddress(t) == t # <<>> /\ SimpleEmailMatch(t) = Match(t)

AngleAddresses(s) ==
  {SubSeq(s, sp[1] + 1, sp[2] - 1) : sp \in {x \in AngleSpans(s) :
                                               IsAddress(SubSeq(s, x[1] + 1, x[2] - 1))}}

C24_ExtractionPrecedence ==
  (tout # <<>> /\ tin.present /\ tin.s # <<>>)
    => IF AngleAddresses(tin.s) # {} THEN tout[1] \in AngleAddresses(tin.s)
       ELSE IF SimpleEmailMatch(tin.s).found THEN tout[1] = SimpleEmailMatch(tin.s).s
       ELSE IF HasMarker(tin.s)
            THEN tout[1] = IF OriginalSenderMatch(tin.s).found
                           THEN OriginalSenderMatch(tin.s).s ELSE Sentinel
       ELSE tout[1] = tin.s

C26_ForwardedImpliesStored ==
  \A r \in Reqs : (Done(r) /\ MailsOf(r) # {}) => Stored(r)

(***************************************************************************)
(* C27: every call of the webhook handler sends exactly one response, on   *)
(* every path: none while it runs, one when it has ended, with status 200, *)
(* 404 or 500; and a 200 is sent only when the storage transaction has     *)
(* committed.                                                              *)
(***************************************************************************)
C27_ExactlyOneResponse ==
  \A r \in Reqs :
    req[r].handler = "webhook" =>
      /\ Len(req[r].resp) <= 1
      /\ Done(r) => (Len(req[r].resp) = 1 /\ req[r].resp[1] \in {200, 404, 500})
      /\ ~Done(r) => req[r].resp = <<>>
      /\ req[r].resp = <<200>> => (Stored(r) /\ ~req[r].txOpen /\ req[r].staged = {})

\* An error inside the transaction: the inner catch rolled back and rethrew,
\* and the outer catch sent the one response.
C27_Witness ==
  \E r \in Reqs :
    /\ req[r].handler = "webhook" /\ Done(r)
    /\ req[r].rb # "none" /\ req[r].err = "commit"
    /\ req[r].resp = <<500>>

(***************************************************************************)
(* C28 as claimed: a delete request for a mailbox the user does not own    *)
(* ends with 404 and leaves the mailbox and its received e-mails as they   *)
(* were.                                                                   *)
(***************************************************************************)
NonOwnerDelete == dl.pc # "idle" /\ ~OwnsMailbox(dl.temp0, dl.u, dl.id)

C28_NonOwnerDelete404 ==
  (NonOwnerDelete /\ dl.pc = "done")
    => (dl.resp = 404 /\ temp_emails = dl.temp0 /\ db = dl.db0)

(***************************************************************************)
(* C28 as amended: a delete request for a mailbox the user does not own    *)
(* changes nothing, at no moment and however it ends: the mailbox table    *)
(* and the received e-mails stay as the request found them.  It ends with  *)
(* 404 when no database operation fails; after a failure it ends with 400, *)
(* or without a response when the rollback of the catch block fails too.   *)
(***************************************************************************)
C28_NonOwnerDeleteChangesNothing ==
  NonOwnerDelete =>
    /\ temp_emails = dl.temp0 /\ db = dl.db0
    /\ dl.pc = "done" =>
         /\ dl.err = "none" => dl.resp = 404
         /\ dl.err # "none" => dl.resp \in {400, 0}

\* u2 asked to delete t1, the mailbox of u1 with two received e-mails; the
\* e-mails had been deleted in the transaction, the request ended with 404
\* and they are all there.
C28_Witness ==
  /\ dl.pc = "done" /\ dl.u = "u2" /\ dl.id = "t1" /\ dl.resp = 404
  /\ "t1" \in DOMAIN temp_emails
  /\ {ReceivedRow("t1", 1), ReceivedRow("t1", 2)} \subseteq db

(***************************************************************************)
(* C29: a sweep over the verified domains is not cut short by an error on  *)
(* one of them: once the domains are selected, the sweep ends only when    *)
(* none of them is left to check, every selected domain does get checked,  *)
(* and every sweep that has started ends, which releases its connection.   *)
(***************************************************************************)
SweepRunning == mon.pc \in {"loop", "update", "issue", "reactivate"}

C29_SweepIsolationAndTermination ==
  /\ [][(SweepRunning /\ mon'.pc = "idle") => (mon.pc = "loop" /\ mon.todo = {})]_vars
  /\ \A d \in Domains : (SweepRunning /\ d \in mon.todo) ~> (d \notin mon.todo)
  /\ (mon.pc # "idle") ~> (mon.pc = "idle")

\* The UPDATE for one domain has failed and the sweep is back in the loop
\* with another domain still to check.
C29_Witness ==
  /\ mon.pc = "loop" /\ mon.todo # {}
  /\ mlast # NoLog /\ mlast.upd = "failed"

(***************************************************************************)
(* C30: the sweep writes the status column only, so a verified domain is   *)
(* selected by every later sweep whatever its status; an issue record is   *)
(* appended exactly when the check of a selected domain has failed and the *)
(* UPDATE and the INSERT for it have both succeeded, one record at a time, *)
(* also for a domain that was inactive already; no domain has more issue   *)
(* records than sweeps have run.                                           *)
(***************************************************************************)
\* The step that ends the handling of d with a failed check, an accepted
\* UPDATE and an accepted INSERT.
FailingSweepLogged(d) ==
  /\ mon.pc = "issue" /\ mon.cur = d
  /\ ~mon.res.success
  /\ mlast.upd = "ok"
  /\ mlast'.ins = "ok"

C30_IssuesCountFailingSweeps ==
  /\ [][\A d \in Domains :
          /\ user_domains'[d].is_verified = user_domains[d].is_verified
          /\ domain_issues'[d] =
               domain_issues[d] + (IF FailingSweepLogged(d) THEN 1 ELSE 0)]_vars
  /\ [][(mon.pc = "select" /\ mon'.pc = "loop")
          => mon'.todo = {d \in Domains : user_domains[d].is_verified = 1}]_vars
  /\ [](mon.pc = "issue" => (~mon.res.success /\ mlast.upd = "ok"))
  /\ [](\A d \in Domains : domain_issues[d] <= sweeps)

\* A domain that was inactive before the sweep has failed again and has its
\* second issue record.
C30_Witness ==
  /\ Handled /\ ~mlast.verdict /\ mlast.was = "inactive"
  /\ mlast.upd = "ok" /\ mlast.ins = "ok"
  /\ domain_issues[mlast.d] = 2

=============================================================================
